---- MODULE Spec2Model ----
(***************************************************************************)
(* Benchmark execution engine of compare_firebird_diferent_os:             *)
(* benchmark_new.run_benchmark with its sequential and concurrent target   *)
(* runners, the statistics collectors it drives, save_csv and the main     *)
(* entry point of main_new.                                                *)
(*                                                                         *)
(* Python values are represented as follows.  A dict is a function from    *)
(* its keys (strings) to values; None is the record None below; an         *)
(* Optional scalar is None or Some(v).  Times are integer microseconds of  *)
(* time.perf_counter.  A CSV cell is the text written: TextCell(s) for a   *)
(* string, IntCell(n) for str(n), F6Cell(n) for the six-decimal rendering  *)
(* of n microseconds.                                                      *)
(***************************************************************************)
EXTENDS Integers, Sequences, FiniteSets, TLC

\* ---------------------------------------------------------------- bounds
MaxTargets == 2       \* length of the configured target list
MaxRuns == 2          \* value of the runs (and of the max_workers) parameter
MaxDeviations == 1    \* environment steps that depart from the nominal run
MaxTick == 1          \* microseconds between two adjacent perf_counter reads
MaxCounter == 1       \* largest backend counter value in a collector exercise
MaxListed == 3        \* length of the target list in the result-table exercise
MaxCloses == 2        \* calls of connect() and of close() in a connection exercise
MaxServers == 2       \* SERVER{N}_ slots the loader looks at (the code: 10)

\* ---------------------------------------------------------- Python values
None == [none |-> TRUE]
Some(v) == [some |-> v]
EmptyDict == << >>

\* bool(d) of an Optional[dict]: None and {} are falsy
Truthy(d) == d # None /\ DOMAIN d # {}

\* d[k] = v
DictSet(d, k, v) == (k :> v) @@ d

\* d.update(e)
DictUpdate(d, e) == e @@ d

\* `v or 0` for a nullable SQL integer
OrZero(v) == IF v = None THEN 0 ELSE v.some

RECURSIVE CountTrue(_)
CountTrue(s) ==
    IF s = << >> THEN 0 ELSE (IF Head(s) THEN 1 ELSE 0) + CountTrue(Tail(s))

\* ------------------------------------------------------------- backends
DbTypes == {"firebird", "mysql", "postgresql", "mariadb"}

NativeKeys(db) ==
    CASE db = "firebird" ->
           {"seq_reads", "idx_reads", "inserts", "updates", "deletes",
            "backouts", "purges", "expunges"}
      [] db = "postgresql" ->
           {"tup_fetched", "tup_returned", "tup_inserted", "tup_updated",
            "tup_deleted", "blks_read", "blks_hit"}
      [] OTHER ->
           {"handler_read_rnd_next", "handler_read_key", "handler_read_next",
            "handler_write", "handler_update", "handler_delete"}

\* The snapshot a capture stores from the row(s) the monitoring query gave:
\* every native counter, NULL (or a missing Handler_ line) read as 0.
SnapshotOf(db, row) ==
    [k \in NativeKeys(db) |-> IF k \in DOMAIN row THEN OrZero(row[k]) ELSE 0]

\* Outcomes of one capture_before / capture_after call, as the backend decides:
\*   "ok"    the monitoring query returns counters
\*   "norow" the monitoring query returns no row
\*   "noid"  get_connection_id() returns None (Firebird only)
\*   "err"   a statement of the capture raises
CaptureOutcomes(db) ==
    IF db = "firebird" THEN {"ok", "norow", "noid", "err"}
    ELSE {"ok", "norow", "err"}

\* A collector is [before, after]: the fields _stats_before and _stats_after.
NewCollector == [before |-> None, after |-> None]

Reset(c) == [before |-> None, after |-> None]

FirebirdCaptureBefore(c, outcome, row) ==
    CASE outcome = "err" -> [c EXCEPT !.before = None]
      [] outcome = "noid" -> [c EXCEPT !.before = None]
      [] outcome = "norow" -> c
      [] OTHER -> [c EXCEPT !.before = SnapshotOf("firebird", row)]

FirebirdCaptureAfter(c, outcome, row) ==
    CASE outcome = "err" -> [c EXCEPT !.after = None]
      [] outcome = "noid" -> [c EXCEPT !.after = None]
      [] outcome = "norow" -> c
      [] OTHER -> [c EXCEPT !.after = SnapshotOf("firebird", row)]

PostgreSQLCaptureBefore(c, outcome, row) ==
    CASE outcome = "err" -> [c EXCEPT !.before = None]
      [] outcome = "norow" -> c
      [] OTHER -> [c EXCEPT !.before = SnapshotOf("postgresql", row)]

PostgreSQLCaptureAfter(c, outcome, row) ==
    CASE outcome = "err" -> [c EXCEPT !.after = None]
      [] outcome = "norow" -> c
      [] OTHER -> [c EXCEPT !.after = SnapshotOf("postgresql", row)]

\* SHOW STATUS with no Handler_ line still stores a snapshot, all zero.
MariaDBCaptureBefore(c, outcome, row) ==
    CASE outcome = "err" -> [c EXCEPT !.before = None]
      [] outcome = "norow" ->
           [c EXCEPT !.before = SnapshotOf("mariadb", EmptyDict)]
      [] OTHER -> [c EXCEPT !.before = SnapshotOf("mariadb", row)]

MariaDBCaptureAfter(c, outcome, row) ==
    CASE outcome = "err" -> [c EXCEPT !.after = None]
      [] outcome = "norow" ->
           [c EXCEPT !.after = SnapshotOf("mariadb", EmptyDict)]
      [] OTHER -> [c EXCEPT !.after = SnapshotOf("mariadb", row)]

\* The MySQL collector (collectors/mysql.py), as the specification describes
\* it: the Handler_ counters of SHOW STATUS, an absent snapshot whenever the
\* capture obtains no counters.
MySQLCaptureBefore(c, outcome, row) ==
    IF outcome = "ok" THEN [c EXCEPT !.before = SnapshotOf("mysql", row)]
    ELSE [c EXCEPT !.before = None]

MySQLCaptureAfter(c, outcome, row) ==
    IF outcome = "ok" THEN [c EXCEPT !.after = SnapshotOf("mysql", row)]
    ELSE [c EXCEPT !.after = None]

CaptureBefore(db, c, outcome, row) ==
    CASE db = "firebird" -> FirebirdCaptureBefore(c, outcome, row)
      [] db = "postgresql" -> PostgreSQLCaptureBefore(c, outcome, row)
      [] db = "mysql" -> MySQLCaptureBefore(c, outcome, row)
      [] OTHER -> MariaDBCaptureBefore(c, outcome, row)

CaptureAfter(db, c, outcome, row) ==
    CASE db = "firebird" -> FirebirdCaptureAfter(c, outcome, row)
      [] db = "postgresql" -> PostgreSQLCaptureAfter(c, outcome, row)
      [] db = "mysql" -> MySQLCaptureAfter(c, outcome, row)
      [] OTHER -> MariaDBCaptureAfter(c, outcome, row)

\* get_io_stats returns a dict, or Raised when it raises: subscripting a
\* snapshot that lacks a counter is a KeyError.
Raised == [raised |-> TRUE]

HasKeys(snapshot, keys) == keys \subseteq DOMAIN snapshot

\* Variant: the after snapshot is subscripted without the None test.
FirebirdGetIoStatsNoAfterCheck(before, after) ==
    IF ~Truthy(before) THEN EmptyDict
    ELSE IF after = None THEN Raised
    ELSE [k \in {"seq_reads", "idx_reads", "inserts", "updates", "deletes",
                 "backouts", "purges", "expunges"} |-> after[k] - before[k]]

FirebirdGetIoStats(before, after) ==
    IF ~Truthy(before) \/ ~Truthy(after) THEN EmptyDict
    ELSE IF ~HasKeys(before, NativeKeys("firebird"))
            \/ ~HasKeys(after, NativeKeys("firebird")) THEN Raised
    ELSE [seq_reads |-> after["seq_reads"] - before["seq_reads"],
          idx_reads |-> after["idx_reads"] - before["idx_reads"],
          inserts |-> after["inserts"] - before["inserts"],
          updates |-> after["updates"] - before["updates"],
          deletes |-> after["deletes"] - before["deletes"],
          backouts |-> after["backouts"] - before["backouts"],
          purges |-> after["purges"] - before["purges"],
          expunges |-> after["expunges"] - before["expunges"]]

PostgreSQLGetIoStats(before, after) ==
    IF ~Truthy(before) \/ ~Truthy(after) THEN EmptyDict
    ELSE IF ~HasKeys(before, NativeKeys("postgresql"))
            \/ ~HasKeys(after, NativeKeys("postgresql")) THEN Raised
    ELSE [seq_reads |-> after["tup_returned"] - before["tup_returned"],
          idx_reads |-> after["tup_fetched"] - before["tup_fetched"],
          inserts |-> after["tup_inserted"] - before["tup_inserted"],
          updates |-> after["tup_updated"] - before["tup_updated"],
          deletes |-> after["tup_deleted"] - before["tup_deleted"],
          blks_read |-> after["blks_read"] - before["blks_read"],
          blks_hit |-> after["blks_hit"] - before["blks_hit"]]

\* Variant: idx_reads counts Handler_read_key alone.
MariaDBGetIoStatsKeyOnly(before, after) ==
    IF ~Truthy(before) \/ ~Truthy(after) THEN EmptyDict
    ELSE [seq_reads |-> after["handler_read_rnd_next"]
                          - before["handler_read_rnd_next"],
          idx_reads |-> after["handler_read_key"] - before["handler_read_key"],
          inserts |-> after["handler_write"] - before["handler_write"],
          updates |-> after["handler_update"] - before["handler_update"],
          deletes |-> after["handler_delete"] - before["handler_delete"]]

MariaDBGetIoStats(before, after) ==
    IF ~Truthy(before) \/ ~Truthy(after) THEN EmptyDict
    ELSE IF ~HasKeys(before, NativeKeys("mariadb"))
            \/ ~HasKeys(after, NativeKeys("mariadb")) THEN Raised
    ELSE [seq_reads |-> after["handler_read_rnd_next"]
                          - before["handler_read_rnd_next"],
          idx_reads |-> (after["handler_read_key"] - before["handler_read_key"])
                          + (after["handler_read_next"]
                               - before["handler_read_next"]),
          inserts |-> after["handler_write"] - before["handler_write"],
          updates |-> after["handler_update"] - before["handler_update"],
          deletes |-> after["handler_delete"] - before["handler_delete"]]

\* The MySQL collector's get_io_stats, as the specification describes it.
MySQLGetIoStats(before, after) ==
    IF ~Truthy(before) \/ ~Truthy(after) THEN EmptyDict
    ELSE [seq_reads |-> after["handler_read_rnd_next"]
                          - before["handler_read_rnd_next"],
          idx_reads |-> (after["handler_read_key"] - before["handler_read_key"])
                          + (after["handler_read_next"]
                               - before["handler_read_next"]),
          inserts |-> after["handler_write"] - before["handler_write"],
          updates |-> after["handler_update"] - before["handler_update"],
          deletes |-> after["handler_delete"] - before["handler_delete"]]

GetIoStats(db, c) ==
    CASE db = "firebird" -> FirebirdGetIoStats(c.before, c.after)
      [] db = "postgresql" -> PostgreSQLGetIoStats(c.before, c.after)
      [] db = "mysql" -> MySQLGetIoStats(c.before, c.after)
      [] OTHER -> MariaDBGetIoStats(c.before, c.after)

\* ------------------------------------------------------- execution plans
PlanText == "PLAN"
PlanErrorText == "Plan error: E"

\* Outcomes of one get_execution_plan call, as the backend decides:
\*   "ok"        the plan statement(s) succeed and yield a plan
\*   "none"      they succeed and yield nothing (no cursor.plan, no EXPLAIN row)
\*   "err_set"   SET PLANONLY raises                       (Firebird)
\*   "err_query" the query under plan-only mode raises     (Firebird)
\*   "err_off"   SET PLANONLY OFF raises                   (Firebird)
\*   "err"       the EXPLAIN statement raises              (PostgreSQL, MariaDB)
PlanOutcomes(db) ==
    IF db = "firebird" THEN {"ok", "none", "err_set", "err_query", "err_off"}
    ELSE {"ok", "none", "err"}

\* get_execution_plan returns [raised, value, planonly]: whether the call
\* raised, the Optional[str] it returned, and what it did to the plan-only
\* mode of the primary cursor: "off" (SET PLANONLY OFF was executed last),
\* "on" (SET PLANONLY was executed and never undone) or "same" (untouched).
FirebirdGetExecutionPlan(outcome) ==
    CASE outcome = "ok" ->
           [raised |-> FALSE, value |-> Some(PlanText), planonly |-> "off"]
      [] outcome = "none" ->
           [raised |-> FALSE, value |-> None, planonly |-> "off"]
      [] outcome = "err_set" ->
           [raised |-> FALSE, value |-> Some(PlanErrorText), planonly |-> "same"]
      [] OTHER ->
           [raised |-> FALSE, value |-> Some(PlanErrorText), planonly |-> "on"]

PostgreSQLGetExecutionPlan(outcome) ==
    CASE outcome = "ok" ->
           [raised |-> FALSE, value |-> Some(PlanText), planonly |-> "same"]
      [] outcome = "none" ->
           [raised |-> FALSE, value |-> None, planonly |-> "same"]
      [] OTHER ->
           [raised |-> FALSE, value |-> Some(PlanErrorText), planonly |-> "same"]

MariaDBGetExecutionPlan(outcome) ==
    CASE outcome = "ok" ->
           [raised |-> FALSE, value |-> Some(PlanText), planonly |-> "same"]
      [] outcome = "none" ->
           [raised |-> FALSE, value |-> None, planonly |-> "same"]
      [] OTHER ->
           [raised |-> FALSE, value |-> Some(PlanErrorText), planonly |-> "same"]

GetExecutionPlan(db, outcome) ==
    CASE db = "firebird" -> FirebirdGetExecutionPlan(outcome)
      [] db = "postgresql" -> PostgreSQLGetExecutionPlan(outcome)
      [] OTHER -> MariaDBGetExecutionPlan(outcome)

PlanFailed(outcome) == outcome \in {"err", "err_set", "err_query", "err_off"}

\* --------------------------------------------------- one benchmark cycle
\* A connection is [executed, planonly]: how many timed statements the
\* backend really executed on it, and whether its primary cursor is in
\* plan-only mode.
NewConnection == [executed |-> 0, planonly |-> FALSE]

\* The row a monitoring query returns on a connection.
Row(db, conn) == [k \in NativeKeys(db) |-> Some(conn.executed)]

AfterPlan(conn, pr) ==
    CASE pr.planonly = "on" -> [conn EXCEPT !.planonly = TRUE]
      [] pr.planonly = "off" -> [conn EXCEPT !.planonly = FALSE]
      [] OTHER -> conn

\* execute_query: a cursor in plan-only mode prepares without executing.
AfterExecute(conn, o) ==
    IF o.exec = "ok" /\ ~conn.planonly
    THEN [conn EXCEPT !.executed = conn.executed + 1]
    ELSE conn

\* server_info after the plan step
PlanInfo(pr) ==
    IF pr.raised THEN [plan_error |-> PlanErrorText]
    ELSE IF pr.value # None /\ pr.value.some # "" THEN [plan |-> pr.value.some]
    ELSE EmptyDict

\* The four perf_counter readings, relative to t0.
Clock(o) ==
    [t0 |-> 0, t_server_start |-> o.d1, t_server_end |-> o.d1 + o.dq,
     t1 |-> o.d1 + o.dq + o.d2]

\* Variant: the server interval is subtracted from nothing, the latency is
\* the constant 0.
TimingInfoZeroLatency(info, o) ==
    LET t == Clock(o)
        elapsed_total == t.t1 - t.t0
        elapsed_server == t.t_server_end - t.t_server_start
    IN DictSet(DictSet(DictSet(info, "elapsed_total", elapsed_total),
                       "elapsed_server", elapsed_server),
               "latency", 0)

TimingInfo(info, o) ==
    LET t == Clock(o)
        elapsed_total == t.t1 - t.t0
        elapsed_server == t.t_server_end - t.t_server_start
    IN DictSet(DictSet(DictSet(info, "elapsed_total", elapsed_total),
                       "elapsed_server", elapsed_server),
               "latency", elapsed_total - elapsed_server)

RowcountInfo(info, o) ==
    IF o.rowcount = "ok" THEN DictSet(info, "rowcount", 1) ELSE info

\* Variant: the first clock reading is taken before capture_before, and the
\* last one after capture_after.
StepsTimingMonitoring(o, withPlan, own) ==
    IF o.connect # "ok" THEN << "connect" >>
    ELSE (IF own THEN << "connect" >> ELSE << >>)
         \o (IF withPlan THEN << "get_execution_plan" >> ELSE << >>)
         \o << "t0", "capture_before", "t_server_start", "execute_query" >>
         \o (IF o.exec # "ok" THEN << >>
             ELSE << "fetchone" >>
                  \o (IF o.fetch # "ok" THEN << >>
                      ELSE << "t_server_end", "capture_after", "t1",
                              "get_io_stats", "rowcount" >>
                           \o (IF own THEN << "close" >>
                                      ELSE << "reset" >>)))

\* The calls of one run in the order of the statements: the cycle both
\* runners share, from the plan step (taken when withPlan) to the rowcount
\* lookup, with the four clock readings; own: the run has a connection of its
\* own (_execute_single_query), which it connects first and closes last,
\* while an iteration of the sequential loop ends with reset().  Nothing
\* runs after a call that raised.
Steps(o, withPlan, own) ==
    IF o.connect # "ok" THEN << "connect" >>
    ELSE (IF own THEN << "connect" >> ELSE << >>)
         \o (IF withPlan THEN << "get_execution_plan" >> ELSE << >>)
         \o << "capture_before", "t0", "t_server_start", "execute_query" >>
         \o (IF o.exec # "ok" THEN << >>
             ELSE << "fetchone" >>
                  \o (IF o.fetch # "ok" THEN << >>
                      ELSE << "t_server_end", "t1", "capture_after",
                              "get_io_stats", "rowcount" >>
                           \o (IF own THEN << "close" >>
                                      ELSE << "reset" >>)))

\* The steps of one cycle that both runners share, from the plan step (taken
\* when withPlan) to the rowcount lookup.  raised: execute_query or fetchone
\* raised, and nothing after it ran.
Cycle(db, conn, coll, o, withPlan) ==
    LET pr == GetExecutionPlan(db, o.plan)
        conn1 == IF withPlan THEN AfterPlan(conn, pr) ELSE conn
        info0 == IF withPlan THEN PlanInfo(pr) ELSE EmptyDict
        c1 == CaptureBefore(db, coll, o.before, Row(db, conn1))
        conn2 == AfterExecute(conn1, o)
        info1 == TimingInfo(info0, o)
        c2 == CaptureAfter(db, c1, o.after, Row(db, conn2))
        io == GetIoStats(db, c2)
        info2 == IF io = Raised THEN info1 ELSE DictUpdate(info1, io)
        info3 == RowcountInfo(info2, o)
    IN IF o.exec = "ok" /\ o.fetch = "ok"
       THEN [raised |-> FALSE, elapsed |-> info1["elapsed_total"],
             info |-> info3, conn |-> conn2, coll |-> c2]
       ELSE [raised |-> TRUE, elapsed |-> 0, info |-> info0,
             conn |-> conn2, coll |-> c1]

\* Where an iteration of the sequential loop can be between its statements:
\* the connection and the collector as the calls made so far left them,
\* timed when times.append has run, stored when stats_list.append has run.
\* The first point is inside FirebirdStatsCollector.get_execution_plan,
\* after SET PLANONLY ON; the last is inside reset(), between its two
\* assignments.  Nothing follows a call that raised.
InIteration(db, conn, coll, o) ==
    LET pr == GetExecutionPlan(db, o.plan)
        conn1 == AfterPlan(conn, pr)
        c1 == CaptureBefore(db, coll, o.before, Row(db, conn1))
        conn2 == AfterExecute(conn1, o)
        c2 == CaptureAfter(db, c1, o.after, Row(db, conn2))
        at(cn, cl, t, st) ==
            [conn |-> cn, coll |-> cl, timed |-> t, stored |-> st]
    IN (IF pr.planonly = "same" THEN {}
        ELSE { at([conn EXCEPT !.planonly = TRUE], coll, FALSE, FALSE) })
       \cup { at(conn1, coll, FALSE, FALSE),
               at(conn1, c1, FALSE, FALSE),
               at(conn2, c1, FALSE, FALSE) }
       \cup (IF o.exec = "ok" /\ o.fetch = "ok"
              THEN { at(conn2, c1, TRUE, FALSE),
                     at(conn2, c2, TRUE, FALSE),
                     at(conn2, c2, TRUE, TRUE),
                     at(conn2, [c2 EXCEPT !.before = None], TRUE, TRUE) }
              ELSE {})

\* Variant: a capture or a plan retrieval that fails raises out of the
\* iteration.
SeqIterationMonitoringRaises(config, conn, coll, o) ==
    LET r == Cycle(config.db_type, conn, coll, o, TRUE)
    IN IF r.raised \/ o.before # "ok" \/ o.after # "ok" \/ PlanFailed(o.plan)
       THEN [r EXCEPT !.raised = TRUE]
       ELSE [r EXCEPT !.info = IF DOMAIN r.info # {} THEN r.info ELSE None,
                      !.coll = Reset(r.coll)]

\* Variant: the collector is not reset at the end of the iteration.
SeqIterationNoReset(config, conn, coll, o) ==
    LET r == Cycle(config.db_type, conn, coll, o, TRUE)
    IN IF r.raised THEN r
       ELSE [r EXCEPT !.info = IF DOMAIN r.info # {} THEN r.info ELSE None]

\* One iteration of the loop of run_benchmark_for_server.
SeqIteration(config, conn, coll, o) ==
    LET r == Cycle(config.db_type, conn, coll, o, TRUE)
    IN IF r.raised THEN r
       ELSE [r EXCEPT !.info = IF DOMAIN r.info # {} THEN r.info ELSE None,
                      !.coll = Reset(r.coll)]

\* Variant: the except clause returns what server_info held so far.
ExecuteSingleQueryPartial(config, run_number, o) ==
    IF o.connect # "ok"
    THEN [elapsed |-> 0, stats |-> EmptyDict, run |-> run_number,
          opened |-> FALSE, closed |-> FALSE]
    ELSE LET r == Cycle(config.db_type, NewConnection, NewCollector, o,
                        run_number = 1)
         IN IF r.raised
            THEN [elapsed |-> 0, stats |-> r.info, run |-> run_number,
                  opened |-> TRUE, closed |-> FALSE]
            ELSE [elapsed |-> r.elapsed, stats |-> r.info, run |-> run_number,
                  opened |-> TRUE, closed |-> TRUE]

\* _execute_single_query: [elapsed, stats] is the tuple returned, run the
\* run_number it was called with, closed whether connection.close() ran,
\* opened whether connect() succeeded.
ExecuteSingleQuery(config, run_number, o) ==
    IF o.connect # "ok"
    THEN [elapsed |-> 0, stats |-> None, run |-> run_number,
          opened |-> FALSE, closed |-> FALSE]
    ELSE LET r == Cycle(config.db_type, NewConnection, NewCollector, o,
                        run_number = 1)
         IN IF r.raised
            THEN [elapsed |-> 0, stats |-> None, run |-> run_number,
                  opened |-> TRUE, closed |-> FALSE]
            ELSE [elapsed |-> r.elapsed, stats |-> r.info, run |-> run_number,
                  opened |-> TRUE, closed |-> TRUE]

\* ------------------------------------------------- environment outcomes
\* What the backend and the clock do during one call of the cycle: the
\* result of each backend call, the microseconds d1 between the readings t0
\* and t_server_start, dq taken by execute_query and fetchone (one tick), and
\* d2 between the readings t_server_end and t1.
Nominal ==
    [connect |-> "ok", plan |-> "ok", before |-> "ok", exec |-> "ok",
     fetch |-> "ok", after |-> "ok", rowcount |-> "ok",
     d1 |-> 0, dq |-> 1, d2 |-> 0]

\* Number of fields in which an outcome departs from the nominal one.
Deviations(o) ==
    CountTrue(<< o.connect # "ok", o.plan # "ok", o.before # "ok",
                 o.exec # "ok", o.fetch # "ok", o.after # "ok",
                 o.rowcount # "ok", o.d1 # 0, o.dq # 1, o.d2 # 0 >>)

\* Steps that never run (after a failed connect, execute or fetchone) are
\* left nominal, so that each behaviour of the backend is listed once.
AllOutcomes(db) ==
    { o \in [connect : {"ok", "err"}, plan : PlanOutcomes(db),
             before : CaptureOutcomes(db), exec : {"ok", "err"},
             fetch : {"ok", "err"}, after : CaptureOutcomes(db),
             rowcount : {"ok", "neg", "err"},
             d1 : 0..MaxTick, dq : {1}, d2 : 0..MaxTick] :
        /\ o.connect = "err" => o = [Nominal EXCEPT !.connect = "err"]
        /\ o.exec = "err" => o.fetch = "ok"
        /\ (o.exec = "err" \/ o.fetch = "err") =>
              /\ o.after = "ok" /\ o.rowcount = "ok"
              /\ o.d1 = 0 /\ o.dq = 1 /\ o.d2 = 0 }

OutcomeTable ==
    [db \in DbTypes |->
        [b \in 0..MaxDeviations |->
            { x : x \in { o \in AllOutcomes(db) : Deviations(o) <= b } }]]

\* ------------------------------------------------------------- inputs
\* The configured servers, in the order of the SERVER{N}_ variables: two of
\* them carry the same display name.
Servers ==
    << [name |-> "A", db_type |-> "firebird", os_type |-> "windows"],
       [name |-> "A", db_type |-> "mariadb", os_type |-> "linux"],
       [name |-> "B", db_type |-> "postgresql", os_type |-> "linux"] >>

\* Target lists: n consecutive servers, starting anywhere, wrapping around.
ConfigList(start, n) ==
    [j \in 1..n |-> Servers[((start + j - 2) % Len(Servers)) + 1]]

ConfigLists ==
    { ConfigList(start, n) : start \in 1..Len(Servers), n \in 1..MaxTargets }

QueryText == "Q"

\* ------------------------------------------------------------ save_csv
TextCell(s) == [text |-> s]
IntCell(n) == [int |-> n]
F6Cell(n) == [f6 |-> n]
Blank == TextCell("")

CsvHeader ==
    << "db_type", "os_type", "server_name", "run_index",
       "elapsed_total_seconds", "elapsed_server_seconds", "latency_seconds",
       "seq_reads", "idx_reads", "inserts", "updates", "deletes",
       "plan", "rowcount", "query", "runs" >>

\* stats.get(k, '') if stats else '', written as an integer
IntColumn(stats, k) ==
    IF Truthy(stats) /\ k \in DOMAIN stats THEN IntCell(stats[k]) ELSE Blank

\* stats.get(k, '') if stats else '', written with six decimals
TimeColumn(stats, k) ==
    IF Truthy(stats) /\ k \in DOMAIN stats THEN F6Cell(stats[k]) ELSE Blank

CsvRow(server_name, config, idx, t, stats, runsArg) ==
    [db_type |-> TextCell(config.db_type),
     os_type |-> TextCell(config.os_type),
     server_name |-> TextCell(server_name),
     run_index |-> IntCell(idx),
     elapsed_total_seconds |->
        F6Cell(IF Truthy(stats) /\ "elapsed_total" \in DOMAIN stats
               THEN stats["elapsed_total"] ELSE t),
     elapsed_server_seconds |-> TimeColumn(stats, "elapsed_server"),
     latency_seconds |-> TimeColumn(stats, "latency"),
     seq_reads |-> IntColumn(stats, "seq_reads"),
     idx_reads |-> IntColumn(stats, "idx_reads"),
     inserts |-> IntColumn(stats, "inserts"),
     updates |-> IntColumn(stats, "updates"),
     deletes |-> IntColumn(stats, "deletes"),
     plan |-> IF Truthy(stats) /\ "plan" \in DOMAIN stats
              THEN TextCell(stats["plan"]) ELSE Blank,
     rowcount |-> IntColumn(stats, "rowcount"),
     query |-> TextCell(QueryText),
     runs |-> IntCell(runsArg)]

Min(a, b) == IF a <= b THEN a ELSE b

\* Variant: enumerate counts from 0.
EntryRowsFromZero(e, runsArg) ==
    [idx \in 1..Min(Len(e.times), Len(e.stats)) |->
        CsvRow(e.name, e.config, idx - 1, e.times[idx], e.stats[idx], runsArg)]

\* rows of one entry of the result table: enumerate(zip(times, stats_list), 1)
EntryRows(e, runsArg) ==
    [idx \in 1..Min(Len(e.times), Len(e.stats)) |->
        CsvRow(e.name, e.config, idx, e.times[idx], e.stats[idx], runsArg)]

RECURSIVE AllRows(_, _)
AllRows(results, runsArg) ==
    IF results = << >> THEN << >>
    ELSE EntryRows(Head(results), runsArg) \o AllRows(Tail(results), runsArg)

\* The output file: its header line, its rows, and whether an incomplete
\* line follows them.
save_csv(results, runsArg) ==
    [header |-> CsvHeader, rows |-> AllRows(results, runsArg), cut |-> FALSE]

\* What a call of save_csv that does not return leaves of the file it has
\* opened: its first n lines, the header being the first.  failed: a write
\* failed; the text goes to the file when the with block closes it and the
\* operating system takes a part of it only, some whole lines and possibly
\* the beginning of the next one.  Otherwise an interrupt arrived inside
\* the with block, which closes the file with the lines written so far,
\* and these may be all.
PartFiles(results, runsArg, failed) ==
    LET rows == AllRows(results, runsArg)
    IN { [header |-> IF n >= 1 THEN CsvHeader ELSE << >>,
          rows |-> SubSeq(rows, 1, n - 1),
          cut |-> c] :
           n \in 0..(Len(rows) + (IF failed THEN 0 ELSE 1)),
           c \in (IF failed THEN BOOLEAN ELSE {FALSE}) }

\* --------------------------------------------------------- result table
\* all_results is a dict keyed by config.name; a dict keeps its keys in
\* insertion order and assigning to a present key replaces the value in place.
PutResult(results, e) ==
    IF \E j \in 1..Len(results) : results[j].name = e.name
    THEN [j \in 1..Len(results) |->
             IF results[j].name = e.name THEN e ELSE results[j]]
    ELSE Append(results, e)

\* results_dict of the concurrent runner: pairs <<run_num, result>> in
\* insertion order.
DictHas(d, k) == \E j \in 1..Len(d) : d[j][1] = k
DictGet(d, k) == (CHOOSE j \in 1..Len(d) : d[j][1] = k)
\* Variant: every write starts the dict anew.
PutRunAnew(d, k, v) == << <<k, v>> >>

\* results_dict[run_num] = (elapsed_time, stats)
PutRun(d, k, v) ==
    IF DictHas(d, k)
    THEN [j \in 1..Len(d) |-> IF d[j][1] = k THEN <<k, v>> ELSE d[j]]
    ELSE Append(d, <<k, v>>)

\* Variant: for i in range(1, runs)
RECURSIVE SortedResultsShort(_, _, _)
SortedResultsShort(d, i, n) ==
    IF i >= n THEN << >>
    ELSE (IF DictHas(d, i) THEN << d[DictGet(d, i)][2] >> ELSE << >>)
            \o SortedResultsShort(d, i + 1, n)

\* Variant: the results in the order in which they were collected
CollectionOrder(d, i, n) == [j \in 1..Len(d) |-> d[j][2]]

\* for i in range(1, runs + 1): if i in results_dict: append
RECURSIVE SortedResults(_, _, _)
SortedResults(d, i, n) ==
    IF i > n THEN << >>
    ELSE (IF DictHas(d, i) THEN << d[DictGet(d, i)][2] >> ELSE << >>)
            \o SortedResults(d, i + 1, n)

\* ================================================================ state
VARIABLES
    configs,        \* run_benchmark argument: the list of DatabaseConfig
    concurrent,     \* run_benchmark argument
    runs,           \* run_benchmark argument
    max_workers,    \* run_benchmark argument
    pc,             \* where the main thread is
    ti,             \* 1-based position of `config` in the loop over configs
    connection,     \* sequential runner: its connection, None before connect
    stats_collector,\* sequential runner: its collector
    i,              \* sequential runner: the loop variable
    times,          \* runner local: elapsed times gathered so far
    stats_list,     \* runner local: stats gathered so far
    origin,         \* history: the run number each gathered record came from
    tasks,          \* concurrent runner: the futures, by run number
    results_dict,   \* concurrent runner: results in order of collection
    all_results,    \* run_benchmark local: the result table
    csv,            \* the output file, None while not written
    open,           \* history: connections connected and not closed
    dev,            \* environment deviations spent so far
    hist,           \* history: per target, what the backend did
    made,           \* history: Connection objects created so far
    handle,         \* history: which of them the sequential runner holds
    sessions,       \* history: per target, the connects and who used what
    called,         \* collector exercise: the method called last
    returned,       \* collector exercise: what that call returned
    handles,        \* connection exercise: _cursor and _connection
    released,       \* connection exercise: what the last close() closed
    slots           \* history: what the loader met in each SERVER{N}_ slot

vars == << configs, concurrent, runs, max_workers, pc, ti, connection,
           stats_collector, i, times, stats_list, origin, tasks,
           results_dict, all_results, csv, open, dev, hist, made, handle,
           sessions, called, returned, handles, released, slots >>

\* what no step of the engine changes
inputs == << configs, concurrent, runs, max_workers, called, returned,
            handles, released, slots >>
seqLocals == << connection, stats_collector, i, handle >>
ownership == << made, sessions >>
poolLocals == << tasks, results_dict >>
gathered == << times, stats_list, origin >>

config == configs[ti]
Budget == MaxDeviations - dev

\* History of a target: connect is "none" before any attempt, "ok" or "err"
\* for the sequential runner's connect, "up" or "down" for a target the
\* concurrent runner finds reachable or not; outs maps each run that was
\* started to what happened in it; ended is "no", "ok" (the runner returned),
\* "failed" (it raised) or "interrupted".
NoHistory == [connect |-> "none", outs |-> << >>, ended |-> "no"]

\* DatabaseConnection.__init__: _connection and _cursor are None.  A handle
\* is "none" while the attribute is None and else the state of the driver
\* object it holds, "open" or "closed"; connects and closes count the calls.
NoHandles ==
    [cursor |-> "none", connection |-> "none", connects |-> 0, closes |-> 0]

\* Sessions of a target: how often connect() was called for it, how many
\* collectors were created for it, and which Connection object (numbered in
\* the order of creation) each run that was started worked on.
NoSessions == [connects |-> 0, collectors |-> 0, used |-> << >>]

\* Variant: the factory hands out the object it created first.
CachedInstance(n) == IF n = 0 THEN 1 ELSE n

\* DatabaseConnectionFactory.create returns a new object on every call.
FreshInstance(n) == n + 1

\* What happened in one run: was the plan requested, did plan retrieval fail,
\* did a capture store no counters (the MariaDB collector stores a snapshot
\* of zeros when SHOW STATUS gives no line, the others store nothing when
\* the query gives no row), did execute or fetchone raise, did connect raise.
Happened(o, withPlan) ==
    [asked |-> withPlan /\ o.connect = "ok",
     planFail |-> withPlan /\ PlanFailed(o.plan),
     monFail |->
        \/ CaptureBefore(config.db_type, NewCollector, o.before,
                         Row(config.db_type, NewConnection)).before = None
        \/ CaptureAfter(config.db_type, NewCollector, o.after,
                        Row(config.db_type, NewConnection)).after = None,
     execFail |-> o.exec # "ok" \/ o.fetch # "ok",
     connFail |-> o.connect # "ok"]

\* The pool has one worker (the tasks run one after another) or one worker
\* per run (a larger pool behaves the same); the sequential runner ignores it.
Init ==
    /\ configs \in ConfigLists
    /\ concurrent \in BOOLEAN
    /\ runs \in 0..MaxRuns
    /\ max_workers \in (IF concurrent /\ runs > 1 THEN {1, runs} ELSE {1})
    /\ pc = "target"
    /\ ti = 1
    /\ connection = None
    /\ stats_collector = None
    /\ i = 1
    /\ times = << >>
    /\ stats_list = << >>
    /\ origin = << >>
    /\ tasks = << >>
    /\ results_dict = << >>
    /\ all_results = << >>
    /\ csv = None
    /\ open = 0
    /\ dev = 0
    /\ hist = [t \in 1..Len(configs) |-> NoHistory]
    /\ made = 0
    /\ handle = 0
    /\ sessions = [t \in 1..Len(configs) |-> NoSessions]
    /\ called = "none"
    /\ returned = None
    /\ handles = NoHandles
    /\ released = << >>
    /\ slots = << >>

\* history bookkeeping
Note(k, o, withPlan) ==
    [hist EXCEPT ![ti].outs = DictSet(@, k, Happened(o, withPlan))]
Ended(h, how) == [h EXCEPT ![ti].ended = how]

\* the entry run_benchmark stores for the current target
Entry(ts, ss, og) ==
    [name |-> config.name, config |-> config, times |-> ts, stats |-> ss,
     origin |-> og, target |-> ti]

\* ------------------------------------------------- sequential runner
\* run_benchmark_for_server up to the loop: create and connect.  A failed
\* connect propagates to the except clause of run_benchmark.
SeqConnect ==
    /\ pc = "target" /\ ti <= Len(configs) /\ ~concurrent
    /\ \E c \in {"ok", "err"} :
         /\ c = "err" => Budget >= 1
         /\ dev' = dev + (IF c = "err" THEN 1 ELSE 0)
         /\ IF c = "ok"
            THEN /\ pc' = "seq"
                 /\ connection' = NewConnection
                 /\ stats_collector' = NewCollector
                 /\ open' = open + 1
                 /\ hist' = [hist EXCEPT ![ti].connect = "ok"]
                 /\ ti' = ti
                 /\ handle' = FreshInstance(made)
                 /\ sessions' = [sessions EXCEPT ![ti].connects = 1,
                                                 ![ti].collectors = 1]
            ELSE /\ pc' = "target"
                 /\ connection' = None
                 /\ stats_collector' = None
                 /\ open' = open
                 /\ hist' = [hist EXCEPT ![ti].connect = "err",
                                         ![ti].ended = "failed"]
                 /\ ti' = ti + 1
                 /\ handle' = 0
                 /\ sessions' = [sessions EXCEPT ![ti].connects = 1]
    /\ made' = FreshInstance(made)
    /\ i' = 1
    /\ times' = << >>
    /\ stats_list' = << >>
    /\ origin' = << >>
    /\ UNCHANGED << inputs, poolLocals, all_results, csv >>

\* One loop iteration.  An exception of execute_query or fetchone leaves
\* run_benchmark_for_server (its connection still open) and is caught by
\* run_benchmark, which goes on to the next config.
SeqRun ==
    /\ pc = "seq" /\ i <= runs
    /\ \E o \in OutcomeTable[config.db_type][Budget] :
         /\ o.connect = "ok"
         /\ \E r \in {SeqIteration(config, connection, stats_collector, o)} :
               /\ dev' = dev + Deviations(o)
               /\ IF r.raised
                  THEN /\ pc' = "target"
                       /\ ti' = ti + 1
                       /\ hist' = Ended(Note(i, o, TRUE), "failed")
                       /\ UNCHANGED << i, gathered >>
                       /\ connection' = None
                       /\ stats_collector' = None
                       /\ handle' = 0
                  ELSE /\ handle' = handle
                       /\ times' = Append(times, r.elapsed)
                       /\ stats_list' = Append(stats_list, r.info)
                       /\ origin' = Append(origin, i)
                       /\ connection' = r.conn
                       /\ stats_collector' = r.coll
                       /\ i' = i + 1
                       /\ hist' = Note(i, o, TRUE)
                       /\ UNCHANGED << pc, ti >>
    /\ sessions' = [sessions EXCEPT ![ti].used = DictSet(@, i, handle)]
    /\ UNCHANGED << inputs, poolLocals, all_results, csv, open, made >>

\* After the loop: connection.close(), return; run_benchmark stores the entry.
SeqClose ==
    /\ pc = "seq" /\ i > runs
    /\ open' = open - 1
    /\ all_results' = PutResult(all_results, Entry(times, stats_list, origin))
    /\ hist' = Ended(hist, "ok")
    /\ pc' = "target"
    /\ ti' = ti + 1
    /\ connection' = None
    /\ stats_collector' = None
    /\ handle' = 0
    /\ UNCHANGED << inputs, i, gathered, poolLocals, csv, dev, ownership >>

\* ------------------------------------------------- concurrent runner
Queued == { k \in DOMAIN tasks : tasks[k].st = "queued" }
Running == { k \in DOMAIN tasks : tasks[k].st = "running" }
Settled == \A k \in DOMAIN tasks : tasks[k].st \in {"done", "collected"}

\* run_benchmark_for_server_concurrent up to ThreadPoolExecutor(...): no
\* task is submitted yet.  Whether the target can be reached at all is
\* settled here: every connect to a target that is down fails.
ConcSubmit ==
    /\ pc = "target" /\ ti <= Len(configs) /\ concurrent
    /\ tasks' = << >>
    /\ results_dict' = << >>
    /\ times' = << >>
    /\ stats_list' = << >>
    /\ origin' = << >>
    /\ pc' = IF runs = 0 THEN "pool" ELSE "submit"
    /\ \E reach \in {"up", "down"} :
         /\ reach = "down" => Budget >= 1
         /\ dev' = dev + (IF reach = "down" THEN 1 ELSE 0)
         /\ hist' = [hist EXCEPT ![ti].connect = reach]
    /\ UNCHANGED << inputs, ti, seqLocals, all_results, csv, open, ownership >>

\* One executor.submit of the dict comprehension: the task of the next run
\* number is queued, and the workers may take it while the main thread
\* submits the next one.  After the last submit the main thread enters the
\* as_completed loop.
Submit ==
    /\ pc = "submit" /\ Len(tasks) < runs
    /\ tasks' = Append(tasks, [st |-> "queued", at |-> "none",
                                res |-> None, ret |-> None])
    /\ pc' = IF Len(tasks) + 1 = runs THEN "pool" ELSE "submit"
    /\ UNCHANGED << inputs, ti, seqLocals, gathered, results_dict, all_results,
                    csv, open, dev, hist, ownership >>

\* The workers take the tasks in the order of submission and a worker holds
\* its task until the Future has the result; a worker that has taken a task
\* need not have run a line of it.  So task k can run its first line when
\* every task up to the last one taken fits into the pool with it.
\* A task is a record [st, at, res, ret].  at is how far the task has come
\* in the first lines of _execute_single_query: "none", "created" (the
\* Connection object exists), "connect" (connect() was called and has not
\* returned), "connected", "collector" (the collector exists).  st is
\* "queued" until connect() has returned, "running" while the connection is
\* in the task's hands, then "done" and "collected" as the Future is; res is
\* the result the Future holds, ret the value _execute_single_query is about
\* to return while the worker has not yet stored it in the Future.
\* A worker runs the first line of task k: the task's own Connection object
\* is created.
TaskCreate(k) ==
    /\ pc \in {"submit", "pool", "drain"}
    /\ k \in Queued /\ tasks[k].at = "none"
    /\ LET held == { j \in DOMAIN tasks :
                       /\ tasks[j].st \in {"queued", "running"}
                       /\ \/ j <= k
                          \/ \E r \in DOMAIN tasks :
                                tasks[r].at # "none" /\ j <= r }
       IN Cardinality(held) <= max_workers
    /\ tasks' = [tasks EXCEPT ![k].at = "created"]
    /\ made' = FreshInstance(made)
    /\ sessions' = [sessions EXCEPT
                      ![ti].used = DictSet(@, k, FreshInstance(made))]
    /\ UNCHANGED << inputs, pc, ti, seqLocals, gathered, results_dict,
                    all_results, csv, open, dev, hist >>

\* Task k calls connect(); the call has not returned.
TaskConnect(k) ==
    /\ pc \in {"submit", "pool", "drain"}
    /\ k \in Queued /\ tasks[k].at = "created"
    /\ tasks' = [tasks EXCEPT ![k].at = "connect"]
    /\ sessions' = [sessions EXCEPT ![ti].connects = @ + 1]
    /\ UNCHANGED << inputs, pc, ti, seqLocals, gathered, results_dict,
                    all_results, csv, open, dev, hist, made >>

\* connect() of task k returns or raises.  A failed connect ends the task in
\* its except clause; the worker stores the result at once or is still
\* before the return.
TaskStart(k) ==
    /\ pc \in {"submit", "pool", "drain"}
    /\ k \in Queued /\ tasks[k].at = "connect"
    /\ \E c \in (IF hist[ti].connect = "down" THEN {"err"} ELSE {"ok", "err"}) :
         /\ (c = "err" /\ hist[ti].connect = "up") => Budget >= 1
         /\ dev' = dev + (IF c = "err" /\ hist[ti].connect = "up" THEN 1 ELSE 0)
         /\ IF c = "ok"
            THEN /\ tasks' = [tasks EXCEPT ![k].st = "running",
                                           ![k].at = "connected"]
                 /\ open' = open + 1
                 /\ hist' = hist
            ELSE \E o \in {[Nominal EXCEPT !.connect = "err"]} :
                 \E res \in {ExecuteSingleQuery(config, k, o)} :
                    /\ \/ tasks' = [tasks EXCEPT ![k].st = "done",
                                                 ![k].res = res]
                       \/ tasks' = [tasks EXCEPT ![k].st = "running",
                                                 ![k].ret = res]
                    /\ open' = open
                    /\ hist' = Note(k, o, k = 1)
    /\ UNCHANGED << inputs, pc, ti, seqLocals, gathered, results_dict,
                    all_results, csv, ownership >>

\* Task k creates its collector for its connection.
TaskCollector(k) ==
    /\ pc \in {"submit", "pool", "drain"}
    /\ k \in Running /\ tasks[k].at = "connected"
    /\ tasks' = [tasks EXCEPT ![k].at = "collector"]
    /\ sessions' = [sessions EXCEPT ![ti].collectors = @ + 1]
    /\ UNCHANGED << inputs, pc, ti, seqLocals, gathered, results_dict,
                    all_results, csv, open, dev, hist, made >>

\* The rest of _execute_single_query on the task's own connection, up to
\* its return statement: the connection is closed (unless a step raised) and
\* the Future is still running.
TaskRun(k) ==
    /\ pc \in {"submit", "pool", "drain"}
    /\ k \in Running /\ tasks[k].ret = None /\ tasks[k].at = "collector"
    /\ \E o \in OutcomeTable[config.db_type][Budget] :
         /\ o.connect = "ok"
         /\ k # 1 => o.plan = "ok"
         /\ \E res \in {ExecuteSingleQuery(config, k, o)} :
               /\ tasks' = [tasks EXCEPT ![k].ret = res]
               /\ open' = open - (IF res.closed THEN 1 ELSE 0)
               /\ dev' = dev + Deviations(o)
               /\ hist' = Note(k, o, k = 1)
    /\ UNCHANGED << inputs, pc, ti, seqLocals, gathered, results_dict,
                    all_results, csv, ownership >>

\* The worker of task k goes on until the Future has the result: it stores
\* the value it was about to return, or, when it had not yet run the rest
\* of _execute_single_query, it runs that first.
TaskFinish(k) ==
    /\ pc \in {"submit", "pool", "drain"}
    /\ k \in Running
    /\ IF tasks[k].ret # None
       THEN /\ tasks' = [tasks EXCEPT ![k].st = "done",
                                      ![k].res = tasks[k].ret,
                                      ![k].ret = None]
            /\ UNCHANGED << open, dev, hist >>
       ELSE \E o \in OutcomeTable[config.db_type][Budget] :
              /\ tasks[k].at = "collector"
              /\ o.connect = "ok"
              /\ k # 1 => o.plan = "ok"
              /\ \E res \in {ExecuteSingleQuery(config, k, o)} :
                    /\ tasks' = [tasks EXCEPT ![k].st = "done",
                                              ![k].res = res]
                    /\ open' = open - (IF res.closed THEN 1 ELSE 0)
                    /\ dev' = dev + Deviations(o)
                    /\ hist' = Note(k, o, k = 1)
    /\ UNCHANGED << inputs, pc, ti, seqLocals, gathered, results_dict,
                    all_results, csv, ownership >>

\* The body of `for future in as_completed(futures)` for a finished future.
Collect(k) ==
    /\ pc = "pool"
    /\ k \in DOMAIN tasks /\ tasks[k].st = "done"
    /\ results_dict' = PutRun(results_dict, k, tasks[k].res)
    /\ tasks' = [tasks EXCEPT ![k].st = "collected"]
    /\ UNCHANGED << inputs, pc, ti, seqLocals, gathered, all_results, csv,
                    open, dev, hist, ownership >>

\* The pool is left, the results are put in run order and returned;
\* run_benchmark stores the entry.
ConcJoin ==
    /\ pc = "pool"
    /\ \A k \in DOMAIN tasks : tasks[k].st = "collected"
    /\ LET sorted == SortedResults(results_dict, 1, runs)
           ts == [j \in 1..Len(sorted) |-> sorted[j].elapsed]
           ss == [j \in 1..Len(sorted) |-> sorted[j].stats]
           og == [j \in 1..Len(sorted) |-> sorted[j].run]
       IN /\ times' = ts
          /\ stats_list' = ss
          /\ origin' = og
          /\ all_results' = PutResult(all_results, Entry(ts, ss, og))
    /\ hist' = Ended(hist, "ok")
    /\ tasks' = << >>
    /\ results_dict' = results_dict
    /\ pc' = "target"
    /\ ti' = ti + 1
    /\ UNCHANGED << inputs, seqLocals, csv, open, dev, ownership >>

\* ------------------------------------------------ run_benchmark, main
\* After the loop over configs: the statistics are printed and, when the
\* table is not empty, save_csv is called outside any try.  An exception of
\* save_csv leaves run_benchmark; main catches it and exits with status 1.
\* "err": mkdir or open raised and there is no file; "cut": a write failed
\* and a part of the file is left.
Report ==
    /\ pc = "target" /\ ti > Len(configs)
    /\ IF all_results = << >>
       THEN /\ pc' = "returned"
            /\ UNCHANGED << csv, dev >>
       ELSE \E w \in {"ok", "err", "cut"} :
              /\ w # "ok" => Budget >= 1
              /\ dev' = dev + (IF w # "ok" THEN 1 ELSE 0)
              /\ CASE w = "ok" ->
                        /\ csv' = save_csv(all_results, runs)
                        /\ pc' = "returned"
                   [] w = "err" ->
                        /\ csv' = csv
                        /\ pc' = "exit_1"
                   [] OTHER ->
                        /\ csv' \in PartFiles(all_results, runs, TRUE)
                        /\ pc' = "exit_1"
    /\ UNCHANGED << inputs, ti, seqLocals, gathered, poolLocals, all_results,
                    open, hist, ownership >>

\* KeyboardInterrupt in the main thread.  It is no Exception, so no clause of
\* run_benchmark catches it; main prints a notice and exits with status 130.
\* It arrives between two steps of the main thread or inside one, and then
\* the statements of the step that ran so far have had their effect.
\*
\* Between two steps.  Inside the pool's with block the executor is first
\* shut down with wait=True, which lets every task run that was submitted
\* by then; the tasks not yet submitted never exist.
InterruptAtGate ==
    /\ pc \in {"target", "seq", "submit", "pool"}
    /\ Budget >= 1
    /\ dev' = dev + 1
    /\ pc' = IF pc \in {"submit", "pool"} THEN "drain" ELSE "exit_130"
    /\ hist' = IF ti <= Len(configs) THEN Ended(hist, "interrupted") ELSE hist
    /\ UNCHANGED << inputs, ti, seqLocals, gathered, poolLocals, all_results,
                    csv, open, ownership >>

\* In run_benchmark_for_server before the loop: the connection object is
\* created and connect() is not yet called ("created"), or connect() was
\* called and has not opened the session ("connect"), or the session is open
\* and the collector is not yet created ("connected").
InterruptInConnect ==
    /\ pc = "target" /\ ti <= Len(configs) /\ ~concurrent
    /\ Budget >= 1
    /\ dev' = dev + 1
    /\ pc' = "exit_130"
    /\ made' = FreshInstance(made)
    /\ handle' = FreshInstance(made)
    /\ \E at \in {"created", "connect", "connected"} :
         CASE at = "created" ->
                /\ hist' = Ended(hist, "interrupted")
                /\ UNCHANGED << connection, open, sessions >>
           [] at = "connect" ->
                /\ hist' = Ended(hist, "interrupted")
                /\ sessions' = [sessions EXCEPT ![ti].connects = 1]
                /\ UNCHANGED << connection, open >>
           [] OTHER ->
                /\ connection' = NewConnection
                /\ open' = open + 1
                /\ hist' = Ended([hist EXCEPT ![ti].connect = "ok"],
                                 "interrupted")
                /\ sessions' = [sessions EXCEPT ![ti].connects = 1]
    /\ UNCHANGED << inputs, ti, stats_collector, i, gathered, poolLocals,
                    all_results, csv >>

\* Inside an iteration of the sequential loop.
InterruptInIteration ==
    /\ pc = "seq" /\ i <= runs
    /\ Budget >= 1
    /\ \E o \in OutcomeTable[config.db_type][Budget - 1] :
         /\ o.connect = "ok"
         /\ dev' = dev + 1 + Deviations(o)
         /\ \E r \in {SeqIteration(config, connection, stats_collector, o)} :
            \E s \in InIteration(config.db_type, connection,
                                  stats_collector, o) :
               /\ connection' = s.conn
               /\ stats_collector' = s.coll
               /\ times' = IF s.timed THEN Append(times, r.elapsed) ELSE times
               /\ stats_list' = IF s.stored THEN Append(stats_list, r.info)
                                             ELSE stats_list
               /\ origin' = IF s.stored THEN Append(origin, i) ELSE origin
    /\ pc' = "exit_130"
    /\ hist' = Ended(hist, "interrupted")
    /\ UNCHANGED << inputs, ti, i, handle, poolLocals, all_results, csv, open,
                    ownership >>

\* Inside the rowcount lookup of an iteration, whose bare except clause
\* catches the KeyboardInterrupt: the loop goes on and nothing ends.  The
\* rowcount is not stored when the interrupt arrives before the assignment,
\* and the lookup has its own outcome when it arrives after.
InterruptSwallowed ==
    /\ pc = "seq" /\ i <= runs
    /\ Budget >= 1
    /\ \E o \in OutcomeTable[config.db_type][Budget - 1] :
         /\ o.connect = "ok" /\ o.exec = "ok" /\ o.fetch = "ok"
         /\ dev' = dev + 1 + Deviations(o)
         /\ \E r \in {SeqIteration(config, connection, stats_collector, o),
                       SeqIteration(config, connection, stats_collector,
                                    [o EXCEPT !.rowcount = "err"])} :
               /\ times' = Append(times, r.elapsed)
               /\ stats_list' = Append(stats_list, r.info)
               /\ origin' = Append(origin, i)
               /\ connection' = r.conn
               /\ stats_collector' = r.coll
         /\ hist' = Note(i, o, TRUE)
    /\ i' = i + 1
    /\ sessions' = [sessions EXCEPT ![ti].used = DictSet(@, i, handle)]
    /\ UNCHANGED << inputs, pc, ti, handle, poolLocals, all_results, csv, open,
                    made >>

\* After the loop, between connection.close() and the entry that
\* run_benchmark stores.
InterruptInClose ==
    /\ pc = "seq" /\ i > runs
    /\ Budget >= 1
    /\ dev' = dev + 1
    /\ open' = open - 1
    /\ pc' = "exit_130"
    /\ hist' = Ended(hist, "interrupted")
    /\ UNCHANGED << inputs, ti, seqLocals, gathered, poolLocals, all_results,
                    csv, ownership >>

\* After the pool's with block, while the results are put in run order:
\* times is appended to before stats_list.
InterruptInJoin ==
    /\ pc = "pool"
    /\ \A k \in DOMAIN tasks : tasks[k].st = "collected"
    /\ Budget >= 1
    /\ dev' = dev + 1
    /\ LET sorted == SortedResults(results_dict, 1, runs)
       IN \E n \in 0..Len(sorted), more \in 0..1 :
            /\ n + more <= Len(sorted)
            /\ times' = [j \in 1..(n + more) |-> sorted[j].elapsed]
            /\ stats_list' = [j \in 1..n |-> sorted[j].stats]
            /\ origin' = [j \in 1..n |-> sorted[j].run]
    /\ pc' = "exit_130"
    /\ hist' = Ended(hist, "interrupted")
    /\ UNCHANGED << inputs, ti, seqLocals, poolLocals, all_results, csv, open,
                    ownership >>

\* Inside save_csv, once the file is open.
InterruptInSave ==
    /\ pc = "target" /\ ti > Len(configs)
    /\ all_results # << >>
    /\ Budget >= 1
    /\ dev' = dev + 1
    /\ csv' \in PartFiles(all_results, runs, FALSE)
    /\ pc' = "exit_130"
    /\ UNCHANGED << inputs, ti, seqLocals, gathered, poolLocals, all_results,
                    open, hist, ownership >>

Interrupt ==
    \/ InterruptAtGate
    \/ InterruptInConnect
    \/ InterruptInIteration
    \/ InterruptSwallowed
    \/ InterruptInClose
    \/ InterruptInJoin
    \/ InterruptInSave

\* The executor has shut down: every task submitted has settled.
Drained ==
    /\ pc = "drain"
    /\ Settled
    /\ pc' = "exit_130"
    /\ UNCHANGED << inputs, ti, seqLocals, gathered, poolLocals, all_results,
                    csv, open, dev, hist, ownership >>

Next ==
    \/ SeqConnect
    \/ SeqRun
    \/ SeqClose
    \/ ConcSubmit
    \/ Submit
    \/ \E k \in 1..runs : TaskCreate(k)
    \/ \E k \in 1..runs : TaskConnect(k)
    \/ \E k \in 1..runs : TaskStart(k)
    \/ \E k \in 1..runs : TaskCollector(k)
    \/ \E k \in 1..runs : TaskRun(k)
    \/ \E k \in 1..runs : TaskFinish(k)
    \/ \E k \in 1..runs : Collect(k)
    \/ ConcJoin
    \/ Report
    \/ Interrupt
    \/ Drained

Spec == Init /\ [][Next]_vars

\* run_benchmark when no interrupt arrives, with threads that keep running:
\* the main thread takes its next step and a worker that can take or finish
\* a task does so, which is weak fairness of the steps.
LiveNext ==
    \/ SeqConnect
    \/ SeqRun
    \/ SeqClose
    \/ ConcSubmit
    \/ Submit
    \/ \E k \in 1..runs : TaskCreate(k)
    \/ \E k \in 1..runs : TaskConnect(k)
    \/ \E k \in 1..runs : TaskStart(k)
    \/ \E k \in 1..runs : TaskCollector(k)
    \/ \E k \in 1..runs : TaskRun(k)
    \/ \E k \in 1..runs : TaskFinish(k)
    \/ \E k \in 1..runs : Collect(k)
    \/ ConcJoin
    \/ Report

LiveSpec == Init /\ [][LiveNext]_vars /\ WF_vars(LiveNext)

\* ================================================== collector exercise
\* A collector of each backend, driven by any sequence of capture_before,
\* capture_after, reset and get_io_stats calls, the backend answering each
\* capture in any of the ways it can.

\* Rows a monitoring query may return: every counter v, but for one counter
\* that is w or NULL.
ExerciseRows(db) ==
    { [k \in NativeKeys(db) |-> IF k = s THEN w ELSE Some(v)] :
        v \in 0..MaxCounter, s \in NativeKeys(db),
        w \in {None} \cup { Some(n) : n \in 0..MaxCounter } }

\* The collectors exercised: one of each backend the factory knows.
ExerciseServers ==
    Servers \o << [name |-> "C", db_type |-> "mysql", os_type |-> "linux"] >>

engine == << concurrent, runs, max_workers, pc, ti, connection, i, times,
             stats_list, origin, tasks, results_dict, all_results, csv,
             open, dev, hist, made, handle, sessions, handles, released,
             slots >>

CollectorInit ==
    /\ configs \in { << ExerciseServers[n] >> : n \in 1..Len(ExerciseServers) }
    /\ concurrent = FALSE
    /\ runs = 0
    /\ max_workers = 1
    /\ pc = "collector"
    /\ ti = 1
    /\ connection = NewConnection
    /\ stats_collector = NewCollector
    /\ i = 1
    /\ times = << >>
    /\ stats_list = << >>
    /\ origin = << >>
    /\ tasks = << >>
    /\ results_dict = << >>
    /\ all_results = << >>
    /\ csv = None
    /\ open = 1
    /\ dev = 0
    /\ hist = [t \in 1..Len(configs) |-> NoHistory]
    /\ made = 0
    /\ handle = 0
    /\ sessions = [t \in 1..Len(configs) |-> NoSessions]
    /\ called = "none"
    /\ returned = None
    /\ handles = NoHandles
    /\ released = << >>
    /\ slots = << >>

CallCaptureBefore ==
    /\ \E outcome \in CaptureOutcomes(config.db_type),
          row \in ExerciseRows(config.db_type) :
         stats_collector' =
            CaptureBefore(config.db_type, stats_collector, outcome, row)
    /\ called' = "capture_before"
    /\ returned' = None
    /\ UNCHANGED << configs, engine >>

CallCaptureAfter ==
    /\ \E outcome \in CaptureOutcomes(config.db_type),
          row \in ExerciseRows(config.db_type) :
         stats_collector' =
            CaptureAfter(config.db_type, stats_collector, outcome, row)
    /\ called' = "capture_after"
    /\ returned' = None
    /\ UNCHANGED << configs, engine >>

CallReset ==
    /\ stats_collector' = Reset(stats_collector)
    /\ called' = "reset"
    /\ returned' = None
    /\ UNCHANGED << configs, engine >>

CallGetIoStats ==
    /\ returned' = GetIoStats(config.db_type, stats_collector)
    /\ called' = "get_io_stats"
    /\ UNCHANGED << configs, engine, stats_collector >>

CollectorNext ==
    \/ CallCaptureBefore
    \/ CallCaptureAfter
    \/ CallReset
    \/ CallGetIoStats

CollectorSpec == CollectorInit /\ [][CollectorNext]_vars

\* ======================================================= cycle exercise
\* The runs of one target seen one by one, with what the backend and the
\* clock did in the run kept next to what the run produced: the iterations
\* of run_benchmark_for_server on its one connection and collector, or the
\* calls of _execute_single_query, each on a connection of its own.
\* returned: the outcome the environment chose, the collector (before) and
\* connection (on) the run started with, the order of its calls, and what
\* the run gave back.
CycleInit ==
    /\ configs \in { << ExerciseServers[n] >> : n \in 1..Len(ExerciseServers) }
    /\ concurrent \in BOOLEAN
    /\ runs = MaxRuns
    /\ max_workers = 1
    /\ pc = "cycle"
    /\ ti = 1
    /\ connection = NewConnection
    /\ stats_collector = NewCollector
    /\ i = 1
    /\ times = << >>
    /\ stats_list = << >>
    /\ origin = << >>
    /\ tasks = << >>
    /\ results_dict = << >>
    /\ all_results = << >>
    /\ csv = None
    /\ open = 0
    /\ dev = 0
    /\ hist = [t \in 1..Len(configs) |-> NoHistory]
    /\ made = 0
    /\ handle = 0
    /\ sessions = [t \in 1..Len(configs) |-> NoSessions]
    /\ called = "none"
    /\ returned = None
    /\ handles = NoHandles
    /\ released = << >>
    /\ slots = << >>

RunCycle ==
    /\ pc = "cycle" /\ i <= runs
    /\ \E o \in OutcomeTable[config.db_type][MaxDeviations] :
         IF concurrent
         THEN LET r == ExecuteSingleQuery(config, i, o)
              IN /\ returned' = [outcome |-> o, before |-> NewCollector,
                                 on |-> NewConnection,
                                 steps |-> Steps(o, i = 1, TRUE),
                                 raised |-> r.stats = None,
                                 elapsed |-> r.elapsed, stats |-> r.stats]
                 /\ i' = i + 1
                 /\ UNCHANGED << connection, stats_collector >>
         ELSE /\ o.connect = "ok"
              /\ LET r == SeqIteration(config, connection, stats_collector, o)
                 IN /\ returned' = [outcome |-> o, before |-> stats_collector,
                                    on |-> connection,
                                    steps |-> Steps(o, TRUE, FALSE),
                                    raised |-> r.raised,
                                    elapsed |-> r.elapsed, stats |-> r.info]
                    /\ connection' = r.conn
                    /\ stats_collector' = r.coll
                    /\ i' = IF r.raised THEN runs + 1 ELSE i + 1
    /\ called' = IF concurrent THEN "_execute_single_query"
                               ELSE "run_benchmark_for_server"
    /\ UNCHANGED << configs, concurrent, runs, max_workers, pc, ti, handle,
                    gathered, poolLocals, all_results, csv, open, dev, hist,
                    ownership, handles, released, slots >>

CycleNext == RunCycle

CycleSpec == CycleInit /\ [][CycleNext]_vars

\* ============================================== DatabaseConfig exercise
\* A Python str is [word, pad, upper]: its text in lower case without the
\* surrounding blanks, whether it has surrounding blanks, and whether it has
\* upper-case letters.  The empty string is Str("").
Str(w) == [word |-> w, pad |-> FALSE, upper |-> FALSE]
Strip(x) == [x EXCEPT !.pad = FALSE]
Lower(x) == [x EXCEPT !.upper = FALSE]
Falsy(x) == x.word = "" /\ ~x.pad

OsTypes == {"windows", "linux"}
Required == {"host", "database", "user", "password"}

ValueError == [raised |-> TRUE, type |-> "ValueError"]

\* Variant: os_type is not looked at.
DatabaseConfigAnyOs(a) ==
    LET db == Lower(a.db_type)
        os == Lower(a.os_type)
    IN IF db \notin { Str(w) : w \in DbTypes } THEN ValueError
       ELSE IF \E f \in Required : Falsy(a[f]) THEN ValueError
       ELSE Some([a EXCEPT !.db_type = db.word, !.os_type = os.word])

\* DatabaseConfig(...): the dataclass constructor and its __post_init__.
\* The result is ValueError or Some(config); a config holds db_type and
\* os_type as the plain lower-case words they were checked to be.
DatabaseConfig(a) ==
    LET db == Lower(a.db_type)
        os == Lower(a.os_type)
    IN IF db \notin { Str(w) : w \in DbTypes } THEN ValueError
       ELSE IF os \notin { Str(w) : w \in OsTypes } THEN ValueError
       ELSE IF \E f \in Required : Falsy(a[f]) THEN ValueError
       ELSE Some([a EXCEPT !.db_type = db.word, !.os_type = os.word])

\* Argument values of a construction: good ones, ones in upper case or with
\* blanks around, unknown ones and empty ones.
ConfigArgs ==
    [db_type : { Str(w) : w \in DbTypes \cup {"oracle", ""} }
                 \cup { [word |-> "firebird", pad |-> FALSE, upper |-> TRUE],
                        [word |-> "firebird", pad |-> TRUE, upper |-> FALSE] },
     os_type : { Str(w) : w \in OsTypes \cup {"solaris"} }
                 \cup { [word |-> "linux", pad |-> FALSE, upper |-> TRUE] },
     name : { "A" },
     host : { Str("h"), Str(""), [word |-> "", pad |-> TRUE, upper |-> FALSE] },
     database : { Str("d"), Str("") },
     user : { Str("u"), Str("") },
     password : { Str("p"), Str("") }]

\* A caller builds one DatabaseConfig and, when it got one, hands it to
\* run_benchmark.
ConfigInit ==
    /\ called \in { [fn |-> "DatabaseConfig", args |-> a] : a \in ConfigArgs }
    /\ returned = None
    /\ configs = << >>
    /\ concurrent \in BOOLEAN
    /\ runs = 1
    /\ max_workers = 1
    /\ pc = "construct"
    /\ ti = 1
    /\ connection = None
    /\ stats_collector = None
    /\ i = 1
    /\ times = << >>
    /\ stats_list = << >>
    /\ origin = << >>
    /\ tasks = << >>
    /\ results_dict = << >>
    /\ all_results = << >>
    /\ csv = None
    /\ open = 0
    /\ dev = 0
    /\ hist = << >>
    /\ made = 0
    /\ handle = 0
    /\ sessions = << >>
    /\ handles = NoHandles
    /\ released = << >>
    /\ slots = << >>

Construct ==
    /\ pc = "construct"
    /\ LET r == DatabaseConfig(called.args)
       IN /\ returned' = r
          /\ IF r = ValueError
             THEN /\ pc' = "raised"
                  /\ UNCHANGED << configs, hist, sessions >>
             ELSE /\ pc' = "target"
                  /\ configs' = << r.some >>
                  /\ hist' = << NoHistory >>
                  /\ sessions' = << NoSessions >>
    /\ UNCHANGED << concurrent, runs, max_workers, called, handles, released,
                    slots, ti, seqLocals, gathered, poolLocals, all_results, csv,
                    open, dev, made >>

ConfigNext ==
    \/ Construct
    \/ Next

ConfigSpec == ConfigInit /\ [][ConfigNext]_vars

\* ====================================================== main and loader
\* main(): load_database_configs, get_benchmark_params, then run_benchmark
\* on what they returned.  A SERVER{N}_ variable that is not set reads as
\* the empty string; where the code gives os.getenv another default
\* (WIN_FB_PORT, FB_BENCH_RUNS, FB_BENCH_CONCURRENT), a variable that is not
\* set is None and differs from one that is set and empty.

\* default_ports.get(db_type, 3050), by the word of db_type
DefaultPort(w) ==
    CASE w = "firebird" -> 3050
      [] w = "mysql" -> 3306
      [] w = "postgresql" -> 5432
      [] w = "mariadb" -> 3306
      [] OTHER -> 3050

\* the decimal numerals among the words of this model
Numerals ==
    [w \in {"0", "1", "2", "3", "10", "20", "3050", "3051"} |->
        CASE w = "0" -> 0 [] w = "1" -> 1 [] w = "2" -> 2 [] w = "3" -> 3
          [] w = "10" -> 10 [] w = "20" -> 20 [] w = "3050" -> 3050
          [] OTHER -> 3051]

\* int(s): Some(number), or ValueError
IntOf(x) ==
    IF x.word \in DOMAIN Numerals THEN Some(Numerals[x.word]) ELSE ValueError

\* the name given to a server that has none: f"{db_type.capitalize()}
\* {os_type.capitalize()} #{i}", from os_type as read (before its default)
DefaultName(db_type, os_type, n) ==
    [db_type |-> db_type.word, os_type |-> os_type.word, i |-> n]

\* Variant: the values are taken from the environment as they are.
LoadServerUnstripped(raw, n) ==
    LET db_type == Lower(Strip(raw.TYPE))
        os_type == Lower(Strip(raw.OS))
        name == Strip(raw.NAME)
        port_str == Strip(raw.PORT)
    IN IF Falsy(db_type) THEN None
       ELSE DatabaseConfig(
              [db_type |-> db_type,
               os_type |-> IF Falsy(os_type) THEN Str("linux") ELSE os_type,
               name |-> IF Falsy(name) THEN DefaultName(db_type, os_type, n)
                                       ELSE name,
               host |-> raw.HOST,
               port |-> IF Falsy(port_str) \/ IntOf(port_str) = ValueError
                        THEN DefaultPort(db_type.word)
                        ELSE IntOf(port_str).some,
               database |-> raw.DATABASE,
               user |-> raw.USER,
               password |-> raw.PASSWORD,
               charset |-> [word |-> "utf8", pad |-> FALSE, upper |-> TRUE]])

\* One pass of the loop over SERVER{N}_: None when TYPE is not set, else
\* what DatabaseConfig(...) gives for the stripped values.
LoadServer(raw, n) ==
    LET db_type == Lower(Strip(raw.TYPE))
        os_type == Lower(Strip(raw.OS))
        name == Strip(raw.NAME)
        port_str == Strip(raw.PORT)
    IN IF Falsy(db_type) THEN None
       ELSE DatabaseConfig(
              [db_type |-> db_type,
               os_type |-> IF Falsy(os_type) THEN Str("linux") ELSE os_type,
               name |-> IF Falsy(name) THEN DefaultName(db_type, os_type, n)
                                       ELSE name,
               host |-> Strip(raw.HOST),
               port |-> IF Falsy(port_str) \/ IntOf(port_str) = ValueError
                        THEN DefaultPort(db_type.word)
                        ELSE IntOf(port_str).some,
               database |-> Strip(raw.DATABASE),
               user |-> Strip(raw.USER),
               password |-> Strip(raw.PASSWORD),
               charset |-> [word |-> "utf8", pad |-> FALSE, upper |-> TRUE]])

\* One block of _load_legacy_configs: None when the host is not set, else
\* ValueError when the port is no number (a port variable that is set and
\* empty is none; one that is not set gives 3050), else what DatabaseConfig
\* gives.
LoadLegacy(raw, os, name) ==
    LET host == Strip(raw.HOST)
        port == IntOf(IF raw.PORT = None THEN Str("3050") ELSE raw.PORT)
    IN IF Falsy(host) THEN None
       ELSE IF port = ValueError THEN ValueError
       ELSE DatabaseConfig(
              [db_type |-> Str("firebird"),
               os_type |-> Str(os),
               name |-> [word |-> name, pad |-> FALSE, upper |-> TRUE],
               host |-> host,
               port |-> port.some,
               database |-> Strip(raw.DATABASE),
               user |-> Strip(raw.USER),
               password |-> Strip(raw.PASSWORD),
               charset |-> [word |-> "utf8", pad |-> FALSE, upper |-> TRUE]])

\* the configs a list of loader results adds
RECURSIVE Loaded(_)
Loaded(rs) ==
    IF rs = << >> THEN << >>
    ELSE (IF Head(rs) \in {None, ValueError} THEN << >>
          ELSE << Head(rs).some >>) \o Loaded(Tail(rs))

\* What a SERVER{N}_ slot of the environment holds: one good server, or the
\* same with one variable changed.
GoodServer ==
    [TYPE |-> Str("firebird"), OS |-> Str(""), NAME |-> Str(""),
     HOST |-> Str("h"), PORT |-> Str(""), DATABASE |-> Str("d"),
     USER |-> Str("u"), PASSWORD |-> Str("p")]

Blanks == [word |-> "", pad |-> TRUE, upper |-> FALSE]

RawServers ==
    { GoodServer,
      [GoodServer EXCEPT !.TYPE = Str("")],
      [GoodServer EXCEPT !.TYPE = Str("oracle")],
      [GoodServer EXCEPT !.TYPE = [word |-> "postgresql", pad |-> TRUE,
                                   upper |-> TRUE]],
      [GoodServer EXCEPT !.OS = Str("solaris")],
      [GoodServer EXCEPT !.OS = [word |-> "windows", pad |-> TRUE,
                                 upper |-> TRUE]],
      [GoodServer EXCEPT !.NAME = Str("a")],
      [GoodServer EXCEPT !.PORT = Str("abc")],
      [GoodServer EXCEPT !.HOST = Str("")],
      [GoodServer EXCEPT !.DATABASE = Blanks],
      [GoodServer EXCEPT !.USER = Str("")],
      [GoodServer EXCEPT !.PASSWORD = Str("")] }

GoodLegacy ==
    [HOST |-> Str("w"), PORT |-> None, DATABASE |-> Str("d"),
     USER |-> Str("u"), PASSWORD |-> Str("p")]

RawLegacy ==
    { GoodLegacy,
      [GoodLegacy EXCEPT !.HOST = Str("")],
      [GoodLegacy EXCEPT !.PORT = Str("")],
      [GoodLegacy EXCEPT !.PORT = Str("abc")],
      [GoodLegacy EXCEPT !.PORT = Str("3051")],
      [GoodLegacy EXCEPT !.DATABASE = Str("")],
      [GoodLegacy EXCEPT !.PASSWORD = Blanks] }

\* What a slot offers, seen from outside: nothing, a target that satisfies
\* the invariant of DatabaseConfig once its values are stripped (an OS that
\* is not set meaning linux), or a target that does not.
Offer(raw) ==
    IF Strip(raw.TYPE) = Str("") THEN "unset"
    ELSE IF /\ Lower(Strip(raw.TYPE)).word \in DbTypes
            /\ Lower(Strip(raw.OS)).word \in OsTypes \cup {""}
            /\ \A f \in {"HOST", "DATABASE", "USER", "PASSWORD"} :
                  raw[f].word # ""
         THEN "valid" ELSE "invalid"

LegacyOffer(raw) ==
    IF raw.HOST.word = "" THEN "unset"
    ELSE IF /\ raw.PORT = None \/ raw.PORT.word \in DOMAIN Numerals
            /\ \A f \in {"DATABASE", "USER", "PASSWORD"} : raw[f].word # ""
         THEN "valid" ELSE "invalid"

Met(offer, r) == [offer |-> offer, kept |-> r \notin {None, ValueError}]

MainInit ==
    /\ configs = << >>
    /\ slots = << >>
    /\ pc = "load"
    /\ i = 1
    /\ concurrent = FALSE
    /\ runs = 0
    /\ max_workers = 0
    /\ ti = 1
    /\ connection = None
    /\ stats_collector = None
    /\ times = << >>
    /\ stats_list = << >>
    /\ origin = << >>
    /\ tasks = << >>
    /\ results_dict = << >>
    /\ all_results = << >>
    /\ csv = None
    /\ open = 0
    /\ dev = 0
    /\ hist = << >>
    /\ made = 0
    /\ handle = 0
    /\ sessions = << >>
    /\ called = "none"
    /\ returned = None
    /\ handles = NoHandles
    /\ released = << >>

params == << concurrent, runs, max_workers >>

loaderFrame == << params, called, returned, handles, released, ti,
                 connection, stats_collector, handle, gathered, poolLocals,
                 all_results, csv, open, dev, made >>

\* for i in range(1, 11): one SERVER{N}_ slot
LoadNextServer ==
    /\ pc = "load" /\ i <= MaxServers
    /\ \E raw \in RawServers :
         LET r == LoadServer(raw, i)
         IN /\ configs' = configs \o Loaded(<< r >>)
            /\ slots' = Append(slots, Met(Offer(raw), r))
    /\ i' = i + 1
    /\ UNCHANGED << loaderFrame, pc, hist, sessions >>

\* The loop found something: load_database_configs returns it and main
\* goes on to get_benchmark_params.
LoadReturn ==
    /\ pc = "load" /\ i > MaxServers /\ configs # << >>
    /\ pc' = "params"
    /\ i' = 1
    /\ hist' = [t \in 1..Len(configs) |-> NoHistory]
    /\ sessions' = [t \in 1..Len(configs) |-> NoSessions]
    /\ UNCHANGED << loaderFrame, configs, slots >>

\* The loop found nothing: the legacy variables are read, and when they give
\* nothing either load_database_configs raises ValueError, on which main
\* exits with status 1.
LoadLegacyConfigs ==
    /\ pc = "load" /\ i > MaxServers /\ configs = << >>
    /\ \E win \in RawLegacy, lin \in RawLegacy :
         LET w == LoadLegacy(win, "windows", "windows")
             l == LoadLegacy(lin, "linux", "linux")
             found == Loaded(<< w, l >>)
         IN /\ configs' = found
            /\ slots' = slots \o << Met(LegacyOffer(win), w),
                                    Met(LegacyOffer(lin), l) >>
            /\ pc' = IF found = << >> THEN "exit_1" ELSE "params"
            /\ hist' = [t \in 1..Len(found) |-> NoHistory]
            /\ sessions' = [t \in 1..Len(found) |-> NoSessions]
    /\ i' = 1
    /\ UNCHANGED loaderFrame

\* get_benchmark_params: ValueError when FB_BENCH_RUNS is no number, else
\* the runs, concurrent and max_workers that main passes to run_benchmark.
\* FB_BENCH_CONCURRENT that is no number, or none above 0, means sequential.
DefaultRuns == Str("20")

DefaultConcurrent == Str("0")

DefaultWorkers == 10

get_benchmark_params(env) ==
    LET concurrent_val == Strip(IF env.CONCURRENT = None THEN DefaultConcurrent
                                ELSE env.CONCURRENT)
        workers == IntOf(concurrent_val)
        conc == workers # ValueError /\ workers.some > 0
        runs_val == IntOf(IF env.RUNS = None THEN DefaultRuns ELSE env.RUNS)
    IN IF runs_val = ValueError THEN ValueError
       ELSE Some([runs |-> runs_val.some,
                  concurrent |-> conc,
                  max_workers |-> IF conc THEN workers.some
                                          ELSE DefaultWorkers])

\* What the environment holds for FB_BENCH_RUNS and FB_BENCH_CONCURRENT.
RawRuns == { None, Str(""), Str("abc"), Str("1") }

RawConcurrent == { None, Str("abc"), Str("0"), Str("1") }

\* main calls get_benchmark_params: a ValueError ends main with status 1,
\* before run_benchmark is called.  Runs above MaxRuns (the default of 20
\* among them) are left out of the exploration.
GetBenchmarkParams ==
    /\ pc = "params"
    /\ \E env \in [RUNS : RawRuns, CONCURRENT : RawConcurrent] :
         LET p == get_benchmark_params(env)
         IN IF p = ValueError
            THEN /\ pc' = "exit_1"
                 /\ UNCHANGED params
            ELSE /\ p.some.runs <= MaxRuns
                 /\ runs' = p.some.runs
                 /\ concurrent' = p.some.concurrent
                 /\ max_workers' = p.some.max_workers
                 /\ pc' = "target"
    /\ UNCHANGED << configs, slots, i, hist, sessions, called, returned,
                    handles, released, ti, connection, stats_collector,
                    handle, gathered, poolLocals, all_results, csv, open, dev,
                    made >>

\* KeyboardInterrupt while main is in load_database_configs or in
\* get_benchmark_params, between two steps of the loader: main exits with
\* status 130 and run_benchmark is never called.
LoadInterrupt ==
    /\ pc \in {"load", "params"}
    /\ Budget >= 1
    /\ dev' = dev + 1
    /\ pc' = "exit_130"
    /\ UNCHANGED << configs, slots, i, hist, sessions, params, called,
                    returned, handles, released, ti, connection,
                    stats_collector, handle, gathered, poolLocals,
                    all_results, csv, open, made >>

MainNext ==
    \/ LoadNextServer
    \/ LoadReturn
    \/ LoadLegacyConfigs
    \/ GetBenchmarkParams
    \/ LoadInterrupt
    \/ Next

MainSpec == MainInit /\ [][MainNext]_vars

\* ================================================== connection exercise
\* One Connection object of any backend: connect(), close(), and the backend
\* ending the session on its own, in any order.

\* connect() of the four classes: the driver's connect, then a cursor on it.
\* A failed connect raises out of the first assignment.
Connect(hs, c) ==
    IF c = "ok"
    THEN [handles |-> [hs EXCEPT !.connection = "open", !.cursor = "open",
                                 !.connects = @ + 1],
          result |-> None]
    ELSE [handles |-> [hs EXCEPT !.connects = @ + 1], result |-> Raised]

\* close() of the four classes: `if self._cursor: self._cursor.close()` and
\* then the same for _connection, with nothing caught and no attribute set
\* back to None.  d says what the driver does with close() on an object that
\* is closed already: "ok" (returns) or "err" (raises).
Close(hs, d) ==
    LET curCalled == hs.cursor # "none"
        curRaises == curCalled /\ hs.cursor = "closed" /\ d = "err"
        conCalled == ~curRaises /\ hs.connection # "none"
        conRaises == conCalled /\ hs.connection = "closed" /\ d = "err"
    IN [handles |-> [hs EXCEPT
                       !.cursor = IF curCalled THEN "closed" ELSE @,
                       !.connection = IF conCalled THEN "closed" ELSE @,
                       !.closes = @ + 1],
        released |-> (IF curCalled THEN << "cursor" >> ELSE << >>)
                     \o (IF conCalled THEN << "connection" >> ELSE << >>),
        result |-> IF curRaises \/ conRaises THEN Raised ELSE None]

ConnectionInit ==
    /\ configs \in { << ExerciseServers[n] >> : n \in 1..Len(ExerciseServers) }
    /\ concurrent = FALSE
    /\ runs = 1
    /\ max_workers = 1
    /\ pc = "exercise"
    /\ ti = 1
    /\ connection = None
    /\ stats_collector = None
    /\ i = 1
    /\ times = << >>
    /\ stats_list = << >>
    /\ origin = << >>
    /\ tasks = << >>
    /\ results_dict = << >>
    /\ all_results = << >>
    /\ csv = None
    /\ open = 0
    /\ dev = 0
    /\ hist = [t \in 1..Len(configs) |-> NoHistory]
    /\ made = 1
    /\ handle = 1
    /\ sessions = [t \in 1..Len(configs) |-> NoSessions]
    /\ called = "none"
    /\ returned = None
    /\ handles = NoHandles
    /\ released = << >>
    /\ slots = << >>

exercised == << configs, concurrent, runs, max_workers, pc, ti, connection,
                stats_collector, i, times, stats_list, origin, tasks,
                results_dict, all_results, csv, open, dev, hist, made, handle,
                sessions, slots >>

CallConnect ==
    /\ handles.connects < MaxCloses
    /\ \E c \in {"ok", "err"} :
         LET r == Connect(handles, c)
         IN /\ handles' = r.handles
            /\ returned' = r.result
    /\ called' = "connect"
    /\ UNCHANGED << exercised, released >>

\* The backend ends the session: the driver objects are closed under the
\* program's feet.
BackendCloses ==
    /\ handles.connection = "open"
    /\ handles' = [handles EXCEPT !.cursor = "closed", !.connection = "closed"]
    /\ UNCHANGED << exercised, released, called, returned >>

CallClose ==
    /\ handles.closes < MaxCloses
    /\ \E d \in {"ok", "err"} :
         LET r == Close(handles, d)
         IN /\ handles' = r.handles
            /\ released' = r.released
            /\ returned' = r.result
    /\ called' = "close"
    /\ UNCHANGED exercised

ConnectionNext ==
    \/ CallConnect
    \/ BackendCloses
    \/ CallClose

ConnectionSpec == ConnectionInit /\ [][ConnectionNext]_vars

\* ================================================ result-table exercise
\* The loop of run_benchmark over any list of configured servers, names
\* repeated or not, each runner either returning its lists or raising; then
\* the report.  What a runner returns is one record per run, the null record
\* or a measured one.
TableLists ==
    UNION { [1..n -> { Servers[j] : j \in 1..Len(Servers) }] : n \in 1..MaxListed }

ReturnedRecords ==
    { [elapsed |-> 0, stats |-> None],
      [elapsed |-> 1, stats |-> TimingInfo(EmptyDict, Nominal)] }

TableInit ==
    /\ configs \in TableLists
    /\ concurrent \in BOOLEAN
    /\ runs = 1
    /\ max_workers = 1
    /\ pc = "table"
    /\ ti = 1
    /\ connection = None
    /\ stats_collector = None
    /\ i = 1
    /\ times = << >>
    /\ stats_list = << >>
    /\ origin = << >>
    /\ tasks = << >>
    /\ results_dict = << >>
    /\ all_results = << >>
    /\ csv = None
    /\ open = 0
    /\ dev = 0
    /\ hist = [t \in 1..Len(configs) |-> NoHistory]
    /\ made = 0
    /\ handle = 0
    /\ sessions = [t \in 1..Len(configs) |-> NoSessions]
    /\ called = "none"
    /\ returned = None
    /\ handles = NoHandles
    /\ released = << >>
    /\ slots = << >>

\* The runner returns and run_benchmark stores the entry.
TableStore ==
    /\ pc = "table" /\ ti <= Len(configs)
    /\ \E rs \in [1..runs -> ReturnedRecords] :
         /\ times' = [j \in 1..runs |-> rs[j].elapsed]
         /\ stats_list' = [j \in 1..runs |-> rs[j].stats]
         /\ origin' = [j \in 1..runs |-> j]
         /\ all_results' =
               PutResult(all_results,
                         Entry([j \in 1..runs |-> rs[j].elapsed],
                               [j \in 1..runs |-> rs[j].stats],
                               [j \in 1..runs |-> j]))
    /\ hist' = Ended(hist, "ok")
    /\ ti' = ti + 1
    /\ UNCHANGED << inputs, pc, seqLocals, poolLocals, csv, open, dev,
                    ownership >>

\* The runner raises and the except clause of run_benchmark goes on.
TableSkip ==
    /\ pc = "table" /\ ti <= Len(configs)
    /\ hist' = Ended(hist, "failed")
    /\ ti' = ti + 1
    /\ UNCHANGED << inputs, pc, seqLocals, gathered, poolLocals, all_results,
                    csv, open, dev, ownership >>

\* After the loop: save_csv when the table is not empty, and return; an
\* exception of save_csv leaves run_benchmark and main exits with status 1,
\* with no file ("err") or a part of it ("cut").
TableReport ==
    /\ pc = "table" /\ ti > Len(configs)
    /\ IF all_results = << >>
       THEN /\ pc' = "returned"
            /\ UNCHANGED << csv, dev >>
       ELSE \E w \in {"ok", "err", "cut"} :
              /\ w # "ok" => Budget >= 1
              /\ dev' = dev + (IF w # "ok" THEN 1 ELSE 0)
              /\ CASE w = "ok" ->
                        /\ csv' = save_csv(all_results, runs)
                        /\ pc' = "returned"
                   [] w = "err" ->
                        /\ csv' = csv
                        /\ pc' = "exit_1"
                   [] OTHER ->
                        /\ csv' \in PartFiles(all_results, runs, TRUE)
                        /\ pc' = "exit_1"
    /\ UNCHANGED << inputs, ti, seqLocals, gathered, poolLocals, all_results,
                    open, hist, ownership >>

TableNext ==
    \/ TableStore
    \/ TableSkip
    \/ TableReport

TableSpec == TableInit /\ [][TableNext]_vars

\* =========================================================== properties
\* The target whose runner was left last, and what run_benchmark holds of it.
Last == ti - 1

\* The runner of the last target has been left in the way `how`, and no
\* other runner has been entered since: times, stats_list and origin are
\* still the lists it gathered.
LastEnded(how) ==
    /\ pc \in {"target", "returned", "exit_1"}
    /\ ti > 1
    /\ hist[Last].ended = how

\* The entries of the result table that the last target stored.
LastEntries == { j \in 1..Len(all_results) : all_results[j].target = Last }

\* A list of records (times, stats, origin) is complete for runs = n.
Complete(ts, ss, og, n) ==
    /\ Len(ts) = n
    /\ Len(ss) = n
    /\ Len(og) = n
    /\ { og[j] : j \in 1..Len(og) } = 1..n

\* A record is well-formed: a measured time and a payload that carries it.
WellFormed(t, st) ==
    /\ t >= 1
    /\ st # None
    /\ "elapsed_total" \in DOMAIN st
    /\ st["elapsed_total"] = t

\* The record of a failed run.
NullRecord(t, st) == t = 0 /\ st = None

\* The runs of target t in which execute_query or fetchone raised, and those
\* in which connect raised.
ExecFailed(t) == { k \in DOMAIN hist[t].outs : hist[t].outs[k].execFail }
ConnFailed(t) == { k \in DOMAIN hist[t].outs : hist[t].outs[k].connFail }
MonitoringFailed(t) ==
    { k \in DOMAIN hist[t].outs :
        hist[t].outs[k].monFail \/ hist[t].outs[k].planFail }

\* C1: for every target whose benchmark completes with runs = N, in either
\* mode, the runner returns exactly N records whose run indices are exactly
\* 1..N, each once; and so does every entry of the result table.
C1_ExactlyNRecords ==
    /\ LastEnded("ok") => Complete(times, stats_list, origin, runs)
    /\ \A j \in 1..Len(all_results) :
          Complete(all_results[j].times, all_results[j].stats,
                   all_results[j].origin, runs)

\* C1 witness: a concurrent target with several runs has completed, one of
\* its runs having failed.
C1_Witness ==
    /\ concurrent /\ runs >= 2
    /\ LastEnded("ok")
    /\ \E j \in 1..Len(stats_list) : stats_list[j] = None
    /\ \E j \in 1..Len(stats_list) : stats_list[j] # None

\* C2: in concurrent mode, whatever the order in which the tasks completed
\* and were collected, the record at position j is the outcome of the task
\* submitted with run number j.
C2_SortedByRunIndex ==
    concurrent =>
        /\ LastEnded("ok") =>
              \A j \in 1..Len(origin) :
                 /\ origin[j] = j
                 /\ DictHas(results_dict, j)
                 /\ times[j] = results_dict[DictGet(results_dict, j)][2].elapsed
                 /\ stats_list[j] = results_dict[DictGet(results_dict, j)][2].stats
        /\ \A e \in 1..Len(all_results) :
              \A j \in 1..Len(all_results[e].origin) :
                 all_results[e].origin[j] = j

\* C2 witness: a concurrent target has completed whose tasks were collected
\* in an order other than the run order.
C2_Witness ==
    /\ concurrent /\ runs >= 2
    /\ LastEnded("ok")
    /\ Len(results_dict) = runs
    /\ results_dict[1][1] # 1
    /\ Len(origin) = runs

\* C3 as stated: when execute or fetch_one fails on run k of a target, in
\* either mode, the target still emits N records, record k being the null
\* record and every other record whose run did not fail being well-formed.
C3_FailedRunYieldsNullRecord ==
    (/\ LastEnded("ok") \/ LastEnded("failed")
     /\ hist[Last].connect \in {"ok", "up"}
     /\ ExecFailed(Last) # {}) =>
        \E j \in LastEntries :
           LET e == all_results[j]
           IN /\ Complete(e.times, e.stats, e.origin, runs)
              /\ \A k \in 1..runs :
                    IF k \in ExecFailed(Last)
                    THEN NullRecord(e.times[k], e.stats[k])
                    ELSE k \in ConnFailed(Last)
                            \/ WellFormed(e.times[k], e.stats[k])

\* C4 as stated: a target whose connect fails yields zero records, in either
\* mode, and every reachable target whose runner is left without failure
\* yields a complete result set.
C4_UnreachableTargetYieldsNothing ==
    (LastEnded("ok") \/ LastEnded("failed")) =>
        /\ hist[Last].connect \in {"err", "down"} => LastEntries = {}
        /\ (hist[Last].connect \in {"ok", "up"} /\ hist[Last].ended = "ok") =>
              \E j \in LastEntries :
                 Complete(all_results[j].times, all_results[j].stats,
                          all_results[j].origin, runs)

\* C5 as stated: whatever fails, run_benchmark returns normally; main never
\* sees an exception of it.
C5_NoExceptionEscapes == pc # "exit_1"

\* C6 as stated: after an interrupt, results gathered so far are written to
\* the CSV before the program exits, and no task is started after it.
C6_InterruptFlushesResults ==
    /\ (pc = "exit_130" /\ (all_results # << >> \/ stats_list # << >>)) =>
          csv # None
    /\ pc = "drain" => Queued = {}

\* C7 as stated: in either mode the plan is requested on the first run of a
\* target only, and the records of runs 2..N carry no plan.
C7_PlanOnFirstRunOnly ==
    /\ \A t \in 1..Len(configs) :
          \A k \in DOMAIN hist[t].outs : hist[t].outs[k].asked => k = 1
    /\ \A j \in 1..Len(stats_list) :
          (origin[j] > 1 /\ stats_list[j] # None) =>
              "plan" \notin DOMAIN stats_list[j]

C9_FailedPlanLeavesBlank ==
    /\ LastEnded("ok") =>
          \A k \in DOMAIN hist[Last].outs :
             (hist[Last].outs[k].planFail /\ k <= Len(stats_list)
                /\ stats_list[k] # None) =>
                 "plan" \notin DOMAIN stats_list[k]
    /\ csv # None =>
          \A r \in 1..Len(csv.rows) : csv.rows[r].plan # TextCell(PlanErrorText)

\* C10: after any sequence of capture_before, capture_after and reset calls,
\* get_io_stats does not raise, and it returns the empty mapping whenever
\* the before snapshot or the after snapshot is absent.
C10_GetIoStatsTotal ==
    called = "get_io_stats" =>
        /\ returned # Raised
        /\ (stats_collector.before = None \/ stats_collector.after = None) =>
              returned = EmptyDict

\* C10 witness: get_io_stats has been called on a collector that holds a
\* before snapshot and no after snapshot, and returned the empty mapping.
C10_Witness ==
    /\ called = "get_io_stats"
    /\ stats_collector.before # None
    /\ stats_collector.after = None
    /\ returned = EmptyDict

\* The five canonical metrics and, per backend, the native counters whose
\* deltas make up each of them (the mapping table of the specification).
CanonicalMetrics == {"seq_reads", "idx_reads", "inserts", "updates", "deletes"}

MappingTable(db) ==
    CASE db = "firebird" ->
           [seq_reads |-> << "seq_reads" >>, idx_reads |-> << "idx_reads" >>,
            inserts |-> << "inserts" >>, updates |-> << "updates" >>,
            deletes |-> << "deletes" >>]
      [] db = "postgresql" ->
           [seq_reads |-> << "tup_returned" >>,
            idx_reads |-> << "tup_fetched" >>,
            inserts |-> << "tup_inserted" >>, updates |-> << "tup_updated" >>,
            deletes |-> << "tup_deleted" >>]
      [] OTHER ->
           [seq_reads |-> << "handler_read_rnd_next" >>,
            idx_reads |-> << "handler_read_key", "handler_read_next" >>,
            inserts |-> << "handler_write" >>,
            updates |-> << "handler_update" >>,
            deletes |-> << "handler_delete" >>]

RECURSIVE SumOfDeltas(_, _, _)
SumOfDeltas(before, after, ks) ==
    IF ks = << >> THEN 0
    ELSE (after[Head(ks)] - before[Head(ks)])
            + SumOfDeltas(before, after, Tail(ks))

\* C11: when both snapshots are present, get_io_stats returns for each
\* canonical metric the after-minus-before delta of the backend counters the
\* mapping table gives for it (for MariaDB and MySQL idx_reads is the sum of
\* the Handler_read_key and Handler_read_next deltas).
C11_DeltasFollowMappingTable ==
    (/\ called = "get_io_stats"
     /\ stats_collector.before # None
     /\ stats_collector.after # None) =>
        /\ returned # Raised
        /\ \A m \in CanonicalMetrics :
              /\ m \in DOMAIN returned
              /\ returned[m] =
                    SumOfDeltas(stats_collector.before, stats_collector.after,
                                MappingTable(config.db_type)[m])

\* C11 witness: a MariaDB collector has returned deltas in which the two
\* index counters moved by different amounts and both count in idx_reads.
C11_Witness ==
    /\ called = "get_io_stats"
    /\ config.db_type = "mariadb"
    /\ stats_collector.before # None
    /\ stats_collector.after # None
    /\ stats_collector.after["handler_read_key"]
          - stats_collector.before["handler_read_key"] = 0
    /\ stats_collector.after["handler_read_next"]
          - stats_collector.before["handler_read_next"] = 1
    /\ returned["idx_reads"] = 1
    /\ returned["seq_reads"] = 1

\* The Connection objects the runs of target t worked on.
UsedBy(t) == { sessions[t].used[k] : k \in DOMAIN sessions[t].used }

\* The tasks of the current target that have run their first line.
Begun == { k \in DOMAIN tasks : tasks[k].at # "none" }

\* How many tasks of the current target have come to one of the places.
TasksAt(places) ==
    Cardinality({ k \in DOMAIN tasks : tasks[k].at \in places })

\* C12: no Connection (and so no Collector, which is created for one
\* Connection) is used by two tasks.  In concurrent mode every task that has
\* run its first line works on a Connection of its own: at every moment,
\* also while tasks are between creating, connecting and creating the
\* collector, the target has one Connection per task that has created one,
\* one call of connect() per task that has called it and one collector per
\* task that has created one, and once the target has completed connect()
\* was called runs times.  In sequential mode connect() is called at most
\* once per target and one collector is created (unless an interrupt ends
\* the program before), and every run works on that one Connection.
\* No object serves two targets.
C12_OwnConnectionPerExecution ==
    /\ \A t \in 1..Len(configs) :
          LET u == sessions[t].used
          IN /\ \A k \in DOMAIN u : u[k] \in 1..made
             /\ sessions[t].collectors <= sessions[t].connects
             /\ IF concurrent
                THEN /\ \A k, j \in DOMAIN u : k # j => u[k] # u[j]
                     /\ sessions[t].connects <= Cardinality(DOMAIN u)
                     /\ DOMAIN u \subseteq 1..runs
                     /\ hist[t].ended = "ok" =>
                           /\ sessions[t].connects = runs
                           /\ DOMAIN u = 1..runs
                ELSE /\ \A k, j \in DOMAIN u : u[k] = u[j]
                     /\ sessions[t].connects <= 1
                     /\ sessions[t].collectors <= 1
                     /\ hist[t].connect = "ok" =>
                           /\ sessions[t].connects = 1
                           /\ hist[t].ended # "interrupted" =>
                                 sessions[t].collectors = 1
    /\ \A t1, t2 \in 1..Len(configs) :
          t1 # t2 => UsedBy(t1) \cap UsedBy(t2) = {}
    /\ (concurrent /\ ti <= Len(configs)) =>
          /\ DOMAIN sessions[ti].used = Begun
          /\ sessions[ti].connects =
                TasksAt({"connect", "connected", "collector"})
          /\ sessions[ti].collectors = TasksAt({"collector"})
          /\ \A k \in DOMAIN tasks :
                tasks[k].st = "running" /\ tasks[k].ret = None =>
                   tasks[k].at \in {"connected", "collector"}

\* C12 witness: after an earlier target has completed, one task of a
\* concurrent target is running with its collector while another task is
\* inside connect() on a Connection of its own, and a third object was never
\* made for them.
C12_Witness ==
    /\ concurrent /\ pc = "pool" /\ ti > 1
    /\ \E k, j \in DOMAIN tasks :
          /\ tasks[k].st = "running" /\ tasks[k].at = "collector"
          /\ tasks[j].st = "queued" /\ tasks[j].at = "connect"
          /\ sessions[ti].used[k] # sessions[ti].used[j]
    /\ sessions[ti].connects = 2
    /\ sessions[ti].collectors = 1
    /\ sessions[Last].connects = runs

\* The tasks of the current target whose connection was opened and has not
\* been closed: those still running, and those that ended without reaching
\* connection.close().
OpenForTarget ==
    { k \in DOMAIN tasks :
        \/ tasks[k].st = "running" /\ tasks[k].ret = None
        \/ /\ tasks[k].st = "running" /\ tasks[k].ret # None
           /\ tasks[k].ret.opened
           /\ ~tasks[k].ret.closed
        \/ /\ tasks[k].st \in {"done", "collected"}
           /\ tasks[k].res.opened
           /\ ~tasks[k].res.closed }

\* C13 as stated: in concurrent mode one task is submitted per run, and at
\* every moment the number of tasks executing, and the number of connections
\* open for the target, is at most max_workers.
C13_AtMostMaxWorkersOpen ==
    (concurrent /\ pc \in {"pool", "drain"}) =>
        /\ DOMAIN tasks = 1..runs
        /\ Cardinality(Running \cup (Queued \cap Begun)) <= max_workers
        /\ Cardinality(OpenForTarget) <= max_workers

\* C14: in concurrent mode a task that fails (its connect, execute_query or
\* fetchone raises) yields the null record at its own run index and nowhere
\* else: every task of the target is run, and every task that did not fail
\* has its well-formed record at its own index.
C14_TaskFailureIsLocal ==
    (concurrent /\ LastEnded("ok")) =>
        /\ DOMAIN hist[Last].outs = 1..runs
        /\ \E j \in LastEntries :
              LET e == all_results[j]
              IN /\ Len(e.times) = runs /\ Len(e.stats) = runs
                 /\ \A k \in 1..runs :
                       IF k \in ExecFailed(Last) \cup ConnFailed(Last)
                       THEN NullRecord(e.times[k], e.stats[k])
                       ELSE WellFormed(e.times[k], e.stats[k])

\* C14 witness: of two tasks of a reachable target the first failed in
\* execute_query or fetchone and the second, run after it, succeeded.
C14_Witness ==
    /\ concurrent /\ LastEnded("ok") /\ runs >= 2
    /\ hist[Last].connect = "up"
    /\ 1 \in ExecFailed(Last)
    /\ 2 \notin ExecFailed(Last) \cup ConnFailed(Last)
    /\ stats_list[1] = None
    /\ stats_list[2] # None

\* C15 as stated: targets are processed one after another in configuration
\* order, and reported in that order: the entries of the result table, and
\* with them the statistics lines and the CSV rows, follow the order of the
\* targets they come from.
C15_ProcessedAndReportedInOrder ==
    /\ \A t \in 1..Len(configs) :
          /\ t > ti => hist[t] = NoHistory /\ sessions[t] = NoSessions
          /\ t < ti => hist[t].ended \in {"ok", "failed"}
    /\ pc = "target" => tasks = << >>
    /\ \A a, b \in 1..Len(all_results) :
          a < b => all_results[a].target < all_results[b].target

\* save_csv has returned: the output file is written as a whole
Saved == pc = "returned" /\ csv # None

\* the value in slot k of results_dict
SlotValue(d, k) == d[DictGet(d, k)][2]

\* a step writes slot k of results_dict: the slot is new or holds a new value
SlotWritten(k) ==
    /\ DictHas(results_dict', k)
    /\ ~DictHas(results_dict, k)
         \/ SlotValue(results_dict', k) # SlotValue(results_dict, k)

\* C16: in concurrent mode results_dict has one slot per run index.  Inside
\* the pool the slots are those of the runs whose future the collection loop
\* has taken, each holding what that task returned, and when the loop has
\* taken every future there is one slot for each of the runs.  A slot is
\* written only by a step of the collection loop (never by a step of a
\* worker task), only for a future that is done, and only while it is empty.
C16_SlotsWrittenOnce ==
    /\ [](pc \in {"pool", "drain"} =>
            /\ \A a, b \in 1..Len(results_dict) :
                  results_dict[a][1] = results_dict[b][1] => a = b
            /\ \A k \in DOMAIN tasks :
                  /\ DictHas(results_dict, k) <=> tasks[k].st = "collected"
                  /\ DictHas(results_dict, k) =>
                        SlotValue(results_dict, k) = tasks[k].res
            /\ (pc = "pool" /\ \A k \in DOMAIN tasks : tasks[k].st = "collected")
                  => Len(results_dict) = runs)
    /\ [][\A k \in 1..runs :
            SlotWritten(k) =>
               /\ pc = "pool" /\ pc' = "pool"
               /\ ~DictHas(results_dict, k)
               /\ tasks[k].st = "done" /\ tasks'[k].st = "collected"
               /\ \A j \in DOMAIN tasks \ {k} : tasks'[j] = tasks[j]]_vars

\* both futures of a target were taken, the second run's first
C16_Witness ==
    /\ pc = "pool" /\ runs = 2
    /\ \A k \in DOMAIN tasks : tasks[k].st = "collected"
    /\ Len(results_dict) = 2
    /\ results_dict[1][1] = 2

\* C17 as stated: close() is idempotent and releases the cursor before the
\* connection: whenever close() has returned, whether it was the first call
\* or a later one and whether or not the backend had closed the handles
\* before, it raised no error, released every handle the object holds in the
\* order cursor, connection, and left none of them open.
C17_CloseIsIdempotent ==
    called = "close" =>
       /\ returned = None
       /\ handles.cursor # "open" /\ handles.connection # "open"
       /\ released = (IF handles.cursor # "none" THEN << "cursor" >> ELSE << >>)
                     \o (IF handles.connection # "none" THEN << "connection" >>
                                                       ELSE << >>)

\* the invariant of a DatabaseConfig
ConfigInvariant(c) ==
    /\ c.db_type \in DbTypes
    /\ c.os_type \in OsTypes
    /\ \A f \in Required : c[f] # Str("")

\* argument values that satisfy the invariant as they are
SatisfyAsGiven(a) ==
    /\ a.db_type \in { Str(w) : w \in DbTypes }
    /\ a.os_type \in { Str(w) : w \in OsTypes }
    /\ \A f \in Required : a[f] # Str("")

\* argument values that satisfy it once db_type and os_type are lower-cased
SatisfyLowered(a) ==
    /\ Lower(a.db_type) \in { Str(w) : w \in DbTypes }
    /\ Lower(a.os_type) \in { Str(w) : w \in OsTypes }
    /\ \A f \in Required : a[f] # Str("")

\* the config a construction is to produce from good argument values
ConfigOf(a) == [a EXCEPT !.db_type = a.db_type.word, !.os_type = a.os_type.word]

\* C18 as stated: every config satisfies the invariant; a construction from
\* values that satisfy the invariant yields the config of those values, a
\* construction from any other values raises ValueError and yields no
\* config; and the config stays as constructed while the engine runs.
C18_OnlyInvariantValuesConstruct ==
    /\ \A t \in 1..Len(configs) : ConfigInvariant(configs[t])
    /\ pc # "construct" =>
          IF SatisfyAsGiven(called.args)
          THEN returned = Some(ConfigOf(called.args))
               /\ configs = << ConfigOf(called.args) >>
          ELSE returned = ValueError /\ configs = << >>

\* C18, amended: the same, with db_type and os_type compared in lower case:
\* the constructor lower-cases both before it checks them, so values that
\* differ from the enumerated words only in case construct a config, which
\* holds the lower-case words.
C18_LoweredValuesConstruct ==
    /\ \A t \in 1..Len(configs) : ConfigInvariant(configs[t])
    /\ pc # "construct" =>
          IF SatisfyLowered(called.args)
          THEN returned = Some(ConfigOf(called.args))
               /\ configs = << ConfigOf(called.args) >>
          ELSE returned = ValueError /\ configs = << >>

\* a config built from an upper-case db_type has been benchmarked
C18_Witness ==
    /\ pc = "returned"
    /\ called.args.db_type.upper
    /\ configs # << >> /\ configs[1].db_type = "firebird"
    /\ all_results # << >>

\* slots that offered a valid target, and slots whose target was kept
ValidSlots == { n \in DOMAIN slots : slots[n].offer = "valid" }
KeptSlots == { n \in DOMAIN slots : slots[n].kept }

\* C19: a slot that offers an invalid target adds no config and a slot that
\* offers a valid one adds one, so the configs are one per valid target and
\* each satisfies the invariant; nothing is connected while the loader runs
\* and the engine's connects are to the loaded configs only; and when no slot
\* offered a valid target the engine is never entered, no connection is ever
\* attempted and nothing is written: once every slot was read the loader has
\* raised and the program is at exit 1 (an interrupt may end it before).
C19_InvalidTargetsRejectedAtLoad ==
    /\ KeptSlots = ValidSlots
    /\ Len(configs) = Cardinality(ValidSlots)
    /\ \A t \in 1..Len(configs) : ConfigInvariant(configs[t])
    /\ pc = "load" => sessions = << >>
    /\ pc \in {"load", "params"} => made = 0 /\ open = 0
    /\ DOMAIN sessions \subseteq 1..Len(configs)
    /\ pc \notin {"load", "exit_1", "exit_130"} =>
          DOMAIN sessions = 1..Len(configs)
    /\ ValidSlots = {} =>
          /\ pc \in {"load", "exit_1", "exit_130"}
          /\ Len(slots) = MaxServers + 2 => pc = "exit_1"
          /\ made = 0 /\ open = 0 /\ csv = None /\ all_results = << >>

\* the first server was invalid and rejected, the second was valid and kept,
\* and the benchmark has run on it alone
C19_Witness ==
    /\ pc = "returned"
    /\ Len(slots) = MaxServers
    /\ slots[1].offer = "invalid" /\ ~slots[1].kept
    /\ slots[2].offer = "valid" /\ slots[2].kept
    /\ Len(configs) = 1 /\ sessions[1].connects >= 1
    /\ csv # None

\* the records of a result table, in the order save_csv goes through them
RECURSIVE RecordsOf(_)
RecordsOf(results) ==
    IF results = << >> THEN << >>
    ELSE [j \in 1..Min(Len(Head(results).times), Len(Head(results).stats)) |->
             [t |-> Head(results).times[j], stats |-> Head(results).stats[j]]]
         \o RecordsOf(Tail(results))

\* the columns of a row that hold a value of the record, with the key of
\* the value in the record's stats
ValueColumns ==
    [elapsed_total_seconds |-> "elapsed_total",
     elapsed_server_seconds |-> "elapsed_server",
     latency_seconds |-> "latency",
     seq_reads |-> "seq_reads", idx_reads |-> "idx_reads",
     inserts |-> "inserts", updates |-> "updates", deletes |-> "deletes",
     plan |-> "plan", rowcount |-> "rowcount"]

\* C20 as stated: in the CSV that was written every value a record does not
\* have is an empty field: every timing, I/O, plan and rowcount column of the
\* row of a null record, and every column of another row whose value is not
\* in the record's stats.
C20_AbsentValuesAreBlank ==
    Saved =>
       LET recs == RecordsOf(all_results)
       IN /\ Len(csv.rows) = Len(recs)
          /\ \A r \in 1..Len(recs) :
                \A c \in DOMAIN ValueColumns :
                   (recs[r].stats = None
                      \/ ValueColumns[c] \notin DOMAIN recs[r].stats)
                   => csv.rows[r][c] = Blank

\* the backend-specific metrics beyond the five canonical ones
ExtraMetrics == {"backouts", "purges", "expunges", "blks_read", "blks_hit"}

\* whether the CSV has a column named k
HasColumn(k) == \E h \in 1..Len(csv.header) : csv.header[h] = k

\* C21 as stated: the extra metrics reach the output: in the CSV that was
\* written, for every record whose stats hold an extra metric there is a
\* column of that name and the record's row holds the value in it, and the
\* column is blank in the rows of the records without it.
C21_ExtraMetricsReachOutput ==
    Saved =>
       LET recs == RecordsOf(all_results)
       IN \A r \in 1..Len(recs) :
             \A k \in ExtraMetrics :
                IF recs[r].stats # None /\ k \in DOMAIN recs[r].stats
                THEN /\ HasColumn(k)
                     /\ k \in DOMAIN csv.rows[r]
                     /\ csv.rows[r][k] = IntCell(recs[r].stats[k])
                ELSE (HasColumn(k) /\ k \in DOMAIN csv.rows[r])
                        => csv.rows[r][k] = Blank

\* ---------------------------------------------------------------- C22
Pos(s, x) ==
    IF \E n \in 1..Len(s) : s[n] = x
    THEN CHOOSE n \in 1..Len(s) : s[n] = x /\ \A m \in 1..(n - 1) : s[m] # x
    ELSE 0

Between(s, x, y) ==
    [n \in 1..(Pos(s, y) - Pos(s, x) - 1) |-> s[Pos(s, x) + n]]

BeforeTiming == {"connect", "get_execution_plan", "capture_before"}

AfterTiming == {"capture_after", "get_io_stats", "rowcount", "close", "reset"}

\* C22: in every run, in both modes, the timed interval (from the reading t0
\* to the reading t1) contains exactly the execute_query and fetchone calls:
\* the plan retrieval and capture_before are over before t0 is read, and
\* capture_after, get_io_stats, the rowcount lookup and close start only
\* after t1 was read.
C22_TimedIntervalIsExecuteAndFetch ==
    returned # None =>
        LET s == returned.steps
        IN /\ \A x \in BeforeTiming :
                Pos(s, x) > 0 /\ Pos(s, "t0") > 0 => Pos(s, x) < Pos(s, "t0")
           /\ \A x \in AfterTiming :
                Pos(s, x) > 0 => /\ Pos(s, "t1") > 0
                                 /\ Pos(s, "t1") < Pos(s, x)
           /\ \A x \in {"execute_query", "fetchone"} :
                Pos(s, x) > 0 => Pos(s, "t0") > 0 /\ Pos(s, "t0") < Pos(s, x)
           /\ Pos(s, "t1") > 0 =>
                { Between(s, "t0", "t1")[n] :
                    n \in 1..Len(Between(s, "t0", "t1")) }
                  = {"t_server_start", "execute_query", "fetchone",
                     "t_server_end"}
           /\ ~returned.raised => Pos(s, "t1") > 0

C22_Witness ==
    /\ returned # None /\ concurrent /\ ~returned.raised
    /\ Pos(returned.steps, "get_execution_plan") > 0
    /\ Pos(returned.steps, "close") > 0
    /\ returned.outcome.before # "ok"

\* ---------------------------------------------------------------- C23
Succeeded == returned # None /\ ~returned.raised

SameBoundary(s) ==
    /\ Pos(s, "t_server_start") = Pos(s, "t0") + 1
    /\ Pos(s, "t1") = Pos(s, "t_server_end") + 1

\* C23 as stated: for every successful run, latency equals elapsed_total
\* minus elapsed_server and is zero; no backend call happens between the two
\* start readings nor between the two end readings, and
\* 0 <= elapsed_server <= elapsed_total.
C23_LatencyIsZero ==
    Succeeded =>
        /\ returned.stats["latency"]
             = returned.stats["elapsed_total"] - returned.stats["elapsed_server"]
        /\ returned.stats["latency"] = 0
        /\ SameBoundary(returned.steps)
        /\ 0 <= returned.stats["elapsed_server"]
        /\ returned.stats["elapsed_server"] <= returned.stats["elapsed_total"]

\* C23 amended: for every successful run, latency equals elapsed_total minus
\* elapsed_server, which is the time that passed between the readings t0 and
\* t_server_start plus the time between t_server_end and t1: never negative,
\* and zero only when the clock did not advance between the paired
\* readings.  No backend call happens between the paired readings, and
\* 0 <= elapsed_server <= elapsed_total.
C23_LatencyIsTimeBetweenReadings ==
    Succeeded =>
        /\ returned.stats["latency"]
             = returned.stats["elapsed_total"] - returned.stats["elapsed_server"]
        /\ returned.stats["latency"] = returned.outcome.d1 + returned.outcome.d2
        /\ returned.stats["latency"] >= 0
        /\ SameBoundary(returned.steps)
        /\ 0 <= returned.stats["elapsed_server"]
        /\ returned.stats["elapsed_server"] <= returned.stats["elapsed_total"]
        /\ returned.elapsed = returned.stats["elapsed_total"]

C23_Witness ==
    /\ Succeeded
    /\ returned.stats["latency"] > 0
    /\ returned.stats["elapsed_server"] > 0

\* ---------------------------------------------------------------- C24
\* the executions a result table holds, target by target in table order and
\* record by record: the run each record came from and what it recorded
RECURSIVE ExecutionsOf(_)
ExecutionsOf(results) ==
    IF results = << >> THEN << >>
    ELSE [j \in 1..Len(Head(results).times) |->
             [name |-> Head(results).name, config |-> Head(results).config,
              run |-> Head(results).origin[j],
              t |-> Head(results).times[j],
              stats |-> Head(results).stats[j]]]
         \o ExecutionsOf(Tail(results))

\* the row describes the execution: its target, and the time measured
DescribedBy(row, x) ==
    /\ row.server_name = TextCell(x.name)
    /\ row.db_type = TextCell(x.config.db_type)
    /\ row.os_type = TextCell(x.config.os_type)
    /\ row.elapsed_total_seconds
         = F6Cell(IF x.stats # None THEN x.stats["elapsed_total"] ELSE x.t)

\* C24: save_csv writes exactly one row per record: for each target in the
\* order of the result table, as many rows as the target has records, in
\* record order, and the run_index column of a row is the run number of
\* the execution the row describes; the times and stats lists of a target
\* have the same length whenever a runner is between two iterations or has
\* returned them, and in the result table.  A call of save_csv that did not
\* return has written the first of these rows.
C24_OneRowPerRecord ==
    /\ pc # "exit_130" => Len(times) = Len(stats_list)
    /\ \A j \in 1..Len(all_results) :
          Len(all_results[j].times) = Len(all_results[j].stats)
    /\ csv # None =>
          LET xs == ExecutionsOf(all_results)
          IN /\ Len(csv.rows) <= Len(xs)
             /\ Saved => Len(csv.rows) = Len(xs) /\ ~csv.cut
             /\ \A r \in 1..Len(csv.rows) :
                   /\ DescribedBy(csv.rows[r], xs[r])
                   /\ csv.rows[r].run_index = IntCell(xs[r].run)

\* a CSV of two targets in concurrent mode, one of them with a null record
\* in its first run
C24_Witness ==
    /\ Saved /\ concurrent /\ runs = 2
    /\ Len(all_results) = 2 /\ Len(csv.rows) = 4
    /\ all_results[2].stats[1] = None /\ all_results[2].stats[2] # None

\* ---------------------------------------------------------------- C25
\* C25 as stated: every connection that was opened is closed by the time the
\* engine moves on: no connection is open between two targets nor when
\* run_benchmark has returned, also when a run of the sequential loop raised,
\* and a concurrent task that has returned has closed the connection it
\* opened, also when a step after connect raised.
C25_OpenedConnectionsAreClosed ==
    /\ pc \in {"target", "returned"} => open = 0
    /\ \A k \in DOMAIN tasks :
          (tasks[k].st \in {"done", "collected"} /\ tasks[k].res.opened)
              => tasks[k].res.closed

\* ---------------------------------------------------------------- C26
\* a capture with this outcome stores a snapshot of counters it read
Stored(db, outcome) ==
    outcome = "ok" \/ (db = "mariadb" /\ outcome = "norow")

\* C26: in sequential mode the collector is reset after every run: at the
\* start of each run both snapshots are absent, and the io_deltas of a run
\* come only from snapshots captured during that run (there are deltas only
\* when both captures of the run stored a snapshot, and the record is the
\* one the same run gives on a collector that never captured anything),
\* whatever captures failed or were empty in the runs before.
C26_CollectorResetAfterEveryRun ==
    ~concurrent =>
        /\ i <= runs => stats_collector = NewCollector
        /\ returned # None =>
              /\ returned.before.before = None
              /\ returned.before.after = None
              /\ (~returned.raised /\ "seq_reads" \in DOMAIN returned.stats) =>
                    /\ Stored(config.db_type, returned.outcome.before)
                    /\ Stored(config.db_type, returned.outcome.after)
              /\ ~returned.raised =>
                    LET alone == Cycle(config.db_type, returned.on,
                                       NewCollector, returned.outcome, TRUE)
                    IN returned.stats
                         = (IF DOMAIN alone.info # {} THEN alone.info ELSE None)

\* the second run of a Firebird target, after a first run that executed: its
\* capture_before got no row, and the record has no deltas
C26_Witness ==
    /\ ~concurrent /\ config.db_type = "firebird"
    /\ i = 3 /\ connection.executed = 2
    /\ returned # None /\ ~returned.raised
    /\ returned.outcome.before = "norow" /\ returned.outcome.after = "ok"
    /\ "seq_reads" \notin DOMAIN returned.stats

\* ---------------------------------------------------------------- C27
\* C27 as stated: when the Firebird collector's get_execution_plan has
\* returned, with a plan or with a plan-error string, the primary cursor is
\* not in plan-only mode (every SET PLANONLY was followed by SET PLANONLY
\* OFF), so that the timed execute_query that follows really executes the
\* statement.
C27_PlanOnlyModeIsLeft ==
    (/\ returned # None
     /\ config.db_type = "firebird"
     /\ Pos(returned.steps, "get_execution_plan") > 0) =>
        /\ FirebirdGetExecutionPlan(returned.outcome.plan).planonly # "on"
        /\ ~concurrent =>
              /\ ~connection.planonly
              /\ returned.outcome.exec = "ok" =>
                    connection.executed = returned.on.executed + 1

\* ---------------------------------------------------------------- C28
\* the targets whose benchmark finished without a target-level failure
Finished == { t \in 1..Len(configs) : hist[t].ended = "ok" }

\* C28 as stated: every target whose benchmark finished without a
\* target-level failure has an entry of its own in the result table and
\* rows of its own in the CSV: the table has as many entries as there are
\* such targets, and the CSV as many rows as they have records, also when
\* two targets have the same name.
C28_EveryFinishedTargetHasItsEntry ==
    /\ Len(all_results) = Cardinality(Finished)
    /\ \A t \in Finished :
          \E j \in 1..Len(all_results) : all_results[j].target = t
    /\ Saved => Len(csv.rows) = runs * Cardinality(Finished)

\* ---------------------------------------------------------------- C29
\* every submitted task eventually settles and the pool it was submitted to
\* is joined
TasksSettleAndPoolsJoin ==
    /\ \A k \in 1..MaxRuns :
          (k \in DOMAIN tasks) ~> (k \in DOMAIN tasks
                                     /\ tasks[k].st \in {"done", "collected"})
    /\ (pc = "pool") ~> (pc = "target" /\ tasks = << >>)

\* every target has been attempted: its runner was entered and left
AllAttempted ==
    /\ ti > Len(configs)
    /\ \A t \in 1..Len(configs) : hist[t].ended \in {"ok", "failed"}

\* run_benchmark is eventually left, by return or by an exception, after
\* every target was attempted
EngineTerminates == <>(pc \in {"returned", "exit_1"} /\ AllAttempted)

\* C29 as stated: when every backend call returns, with a result or an
\* error, every submitted task eventually settles, the worker pool of each
\* target is joined, and run_benchmark eventually returns, after it has
\* attempted every target.
C29_RunBenchmarkEventuallyReturns ==
    /\ TasksSettleAndPoolsJoin
    /\ <>(pc = "returned" /\ AllAttempted)

\* ---------------------------------------------------------------- C30
\* the snapshot `after` is what a capture that got `outcome` and `row` from
\* the backend may leave: the counters of that row, or nothing
FromThisCall(db, after, outcome, row) ==
    \/ after = None
    \/ outcome = "ok" /\ after = SnapshotOf(db, row)
    \/ db = "mariadb" /\ outcome = "norow" /\ after = SnapshotOf(db, EmptyDict)

\* C30 as stated: after capture_before (capture_after) has returned, the
\* before (after) snapshot is the counters read by that very call, or it is
\* absent: whatever the backend answered in the call, a call that got no
\* counters leaves no snapshot of an earlier call in place, also when
\* reset() was not called in between.
C30_NoStaleSnapshot ==
    [][/\ called' = "capture_before" =>
             \A outcome \in CaptureOutcomes(config.db_type),
                row \in ExerciseRows(config.db_type) :
                stats_collector' = CaptureBefore(config.db_type,
                                                 stats_collector, outcome, row)
                  => FromThisCall(config.db_type, stats_collector'.before,
                                  outcome, row)
       /\ called' = "capture_after" =>
             \A outcome \in CaptureOutcomes(config.db_type),
                row \in ExerciseRows(config.db_type) :
                stats_collector' = CaptureAfter(config.db_type,
                                                stats_collector, outcome, row)
                  => FromThisCall(config.db_type, stats_collector'.after,
                                  outcome, row)]_vars

====
